---- MODULE Spec2Model ----
(***************************************************************************)
(* Model of the institution-resolution cache pipeline: the online variant  *)
(* tools/enrich_institutions.py and the heuristic variant                  *)
(* tools/extract_institution_cities.py.                                    *)
(*                                                                         *)
(* Text is modelled as a sequence of tokens: words, and the punctuation    *)
(* tokens "," ";" "|" "+", which are written attached to the token before  *)
(* them and followed by one blank.  Words are separated by one blank.      *)
(* The token " " is a run of extra whitespace.  The heuristic variant      *)
(* works on the characters of a name: Render gives the string of a token   *)
(* sequence as a sequence of one-character strings.                        *)
(* A float is modelled by its canonical repr ("1.5"), None by NoneVal.     *)
(*                                                                         *)
(* The last part models the programs around all_papers.csv: the filters of *)
(* tools/web_interface.py (/search, /export_csv), the test scripts         *)
(* test_japan.py and test_json.py, and convert_country_separators.py.      *)
(***************************************************************************)
EXTENDS Integers, Sequences, FiniteSets, TLC

\* ------------------------------------------------------------------------
\* Bounds of the model
\* ------------------------------------------------------------------------
MaxRuns == 2
MaxLimit == 1

\* ------------------------------------------------------------------------
\* Text helpers
\* ------------------------------------------------------------------------
Punct == {",", ";", "|", "+"}

\* str.lower() on the words of the model's vocabulary
Lower(w) ==
  CASE w = "Department" -> "department"
    [] w = "School"     -> "school"
    [] w = "Faculty"    -> "faculty"
    [] w = "Dept"       -> "dept"
    [] w = "University" -> "university"
    [] w = "Institute"  -> "institute"
    [] w = "Research"   -> "research"
    [] w = "College"    -> "college"
    [] w = "Laboratory" -> "laboratory"
    [] w = "Center"     -> "center"
    [] w = "Centre"     -> "centre"
    [] w = "Stanford"   -> "stanford"
    [] w = "Kyoto"      -> "kyoto"
    [] w = "Bell"       -> "bell"
    [] w = "Law"        -> "law"
    [] w = "Science"    -> "science"
    [] w = "Engineering" -> "engineering"
    [] w = "Unknown"    -> "unknown"
    [] w = "MIT"        -> "mit"
    [] w = "CS"         -> "cs"
    [] w = "RIKEN"      -> "riken"
    [] w = "CNRS"       -> "cnrs"
    [] w = "INRAE"      -> "inrae"
    [] w = "And"        -> "and"
    [] w = "X"          -> "x"
    [] OTHER            -> w

RECURSIVE SumLen(_)
SumLen(s) == IF s = <<>> THEN 0 ELSE Len(Head(s)) + SumLen(Tail(s))

\* number of blanks in the written form of a token sequence
Blanks(s) == Cardinality({i \in 2..Len(s) : s[i] \notin Punct})

\* len() of the written form
StrLen(s) == SumLen(s) + Blanks(s)

\* split a token sequence at the positions in cut (the separators are dropped)
RECURSIVE SplitAt(_, _, _, _)
SplitAt(s, cut, i, cur) ==
  IF i > Len(s) THEN <<cur>>
  ELSE IF i \in cut THEN <<cur>> \o SplitAt(s, cut, i + 1, <<>>)
  ELSE SplitAt(s, cut, i + 1, Append(cur, s[i]))

NonEmpty(parts) == SelectSeq(parts, LAMBDA p : p # <<>>)

RECURSIVE DropWhile(_, _)
DropWhile(s, set) ==
  IF s # <<>> /\ Head(s) \in set THEN DropWhile(Tail(s), set) ELSE s

RECURSIVE DropEndWhile(_, _)
DropEndWhile(s, set) ==
  IF s # <<>> /\ s[Len(s)] \in set THEN DropEndWhile(SubSeq(s, 1, Len(s) - 1), set) ELSE s

\* str.strip() on a token sequence: " " is a run of extra whitespace
Strip(s) == DropEndWhile(DropWhile(s, {" "}), {" "})

StripAll(parts) == [i \in 1..Len(parts) |-> Strip(parts[i])]

\* ------------------------------------------------------------------------
\* _split_institutions
\* ------------------------------------------------------------------------
\* words w with re.search(r"\b(University|...|Microsoft Research)\b", w, re.I)
OrgKeywordWords ==
  {"university", "institute", "research", "college", "laborator",
   "center", "centre", "cnrs", "inrae", "riken"}

HasOrgKeyword(seg) == \E i \in 1..Len(seg) : Lower(seg[i]) \in OrgKeywordWords

\* positions matched by r"\s+and\s+" (re.I): an "and" with a blank on both
\* sides; the blank consumed by the preceding match is not available again
RECURSIVE AndCuts(_, _, _)
AndCuts(p, i, prevCut) ==
  IF i > Len(p) THEN {}
  ELSE IF /\ Lower(p[i]) = "and" /\ i > 1 /\ i < Len(p)
          /\ ~prevCut /\ p[i + 1] \notin Punct
       THEN {i} \cup AndCuts(p, i + 1, TRUE)
       ELSE AndCuts(p, i + 1, FALSE)

NoiseTokens == {"unknown", "n/a", "na", "none"}

SplitSubparts(p) ==
  LET hasAnd == \E i \in 1..Len(p) : Lower(p[i]) = "and"
      tmp    == NonEmpty(StripAll(SplitAt(p, AndCuts(p, 1, FALSE), 1, <<>>)))
  IN IF hasAnd /\ Len(tmp) >= 2 /\ \A j \in 1..Len(tmp) : HasOrgKeyword(tmp[j])
     THEN tmp ELSE <<p>>

\* a filter that keeps the noise tokens
KeepSubpart_All(sp) == TRUE

KeepSubpart(sp) == ~(Len(sp) = 1 /\ Lower(sp[1]) \in NoiseTokens)

RECURSIVE SplitParts(_)
SplitParts(parts) ==
  IF parts = <<>> THEN <<>>
  ELSE SelectSeq(SplitSubparts(Head(parts)), KeepSubpart) \o SplitParts(Tail(parts))

\* value is a token sequence, or NotAString for a missing / non-string cell
NotAString == <<"<nan>">>

_split_institutions(value) ==
  IF value = NotAString \/ Strip(value) = <<>> THEN <<>>
  ELSE SplitParts(NonEmpty(StripAll(
         SplitAt(value, {i \in 1..Len(value) : value[i] \in {";", "|"}}, 1, <<>>))))

\* ------------------------------------------------------------------------
\* normalize_institution
\* ------------------------------------------------------------------------
LeadingUnits == {"department", "dept", "dept.", "school", "faculty"}

\* LEADING_UNITS_RE.sub("", s): "<Unit> of <something without comma>, "
StripLeadingUnits(s) ==
  LET commas == {i \in 1..Len(s) : s[i] = ","}
      k      == IF commas = {} THEN 0 ELSE CHOOSE i \in commas : \A j \in commas : i <= j
  IN IF /\ Len(s) >= 4 /\ Lower(s[1]) \in LeadingUnits /\ Lower(s[2]) = "of"
        /\ k >= 4 /\ s[3] \notin Punct
     THEN SubSeq(s, k + 1, Len(s)) ELSE s

\* positions matched by r"\s*(?:,| and | & |\+|;|\|)\s*"
RECURSIVE JoinerCuts(_, _, _)
JoinerCuts(s, i, prevCut) ==
  IF i > Len(s) THEN {}
  ELSE IF s[i] \in Punct THEN {i} \cup JoinerCuts(s, i + 1, TRUE)
  ELSE IF /\ s[i] \in {"and", "&"} /\ i > 1 /\ i < Len(s)
          /\ ~prevCut /\ s[i + 1] \notin Punct
       THEN {i} \cup JoinerCuts(s, i + 1, TRUE)
       ELSE JoinerCuts(s, i + 1, FALSE)

\* re.search(r"\bUniversity\b", p, re.I)
HasUniversity(p) == \E i \in 1..Len(p) : Lower(p[i]) = "university"
\* re.search(r"\bInstitute\b", p, re.I)
HasInstitute(p) == \E i \in 1..Len(p) : Lower(p[i]) = "institute"
\* re.search(r"\bResearch|Laborator|Center|Centre\b", p, re.I): a word that
\* starts with "research", contains "laborator" or "center", or ends in "centre"
Prio2Words == {"research", "laborator", "laboratory", "center", "centre"}
HasPrio2(p) == \E i \in 1..Len(p) : Lower(p[i]) \in Prio2Words

rank(p) ==
  <<IF HasUniversity(p) THEN 0
    ELSE IF HasInstitute(p) THEN 1
    ELSE IF HasPrio2(p) THEN 2 ELSE 3,
    0 - StrLen(p)>>

RankLess(a, b) == \/ rank(a)[1] < rank(b)[1]
                  \/ rank(a)[1] = rank(b)[1] /\ rank(a)[2] < rank(b)[2]

\* orgs.sort(key=rank)[0]: the first element no other element is smaller than
FirstMin(orgs) ==
  LET i == CHOOSE i \in 1..Len(orgs) :
             /\ \A j \in 1..Len(orgs) : ~RankLess(orgs[j], orgs[i])
             /\ \A j \in 1..(i - 1) : RankLess(orgs[i], orgs[j])
  IN orgs[i]

normalize_institution(raw) ==
  IF raw = NotAString THEN <<>>
  ELSE IF raw = <<>> THEN <<>>
  ELSE LET s          == StripLeadingUnits(raw)
           candidates == NonEmpty(SplitAt(s, JoinerCuts(s, 1, FALSE), 1, <<>>))
           orgs       == SelectSeq(candidates, HasOrgKeyword)
       IN IF candidates = <<>> THEN s
          ELSE IF orgs # <<>> THEN FirstMin(orgs)
          ELSE candidates[Len(candidates)]

\* ------------------------------------------------------------------------
\* EnrichedInstitution, float conversions, ordered dictionaries
\* ------------------------------------------------------------------------
NoneVal == "None"

\* float(text) succeeds exactly on these texts
FloatTexts == {"1.5", "1.50", "2.5", "0.9", "0.0", "0"}

\* float(text), for text in FloatTexts
FloatOf(t) ==
  CASE t \in {"1.5", "1.50"} -> "f1.5"
    [] t = "2.5"             -> "f2.5"
    [] t = "0.9"             -> "f0.9"
    [] t \in {"0.0", "0"}    -> "f0.0"

\* the text csv.DictWriter writes for a float (its repr)
ReprFloat(f) ==
  CASE f = "f1.5" -> "1.5"
    [] f = "f2.5" -> "2.5"
    [] f = "f0.9" -> "0.9"
    [] f = "f0.0" -> "0.0"

EnrichedInstitution(inst, mname, cty, cc, lat, lng, src, rid, oid, sc) ==
  [institution |-> inst, matched_name |-> mname, city |-> cty, country_code |-> cc,
   latitude |-> lat, longitude |-> lng, source |-> src, ror_id |-> rid,
   openalex_id |-> oid, score |-> sc]

\* a placeholder that names a source
Placeholder_Marked(name) ==
  EnrichedInstitution(name, "", "", "", NoneVal, NoneVal, "miss", "", "", "f0.0")

\* EnrichedInstitution(institution=name, source='')
Placeholder(name) ==
  EnrichedInstitution(name, "", "", "", NoneVal, NoneVal, "", "", "", "f0.0")

\* A dict is a sequence of [k, v] in insertion order, one element per key.
DictKeys(d) == {d[i].k : i \in 1..Len(d)}
DictHas(d, key) == \E i \in 1..Len(d) : d[i].k = key
DictGet(d, key) == d[CHOOSE i \in 1..Len(d) : d[i].k = key].v
DictSet(d, key, val) ==
  IF DictHas(d, key)
  THEN [i \in 1..Len(d) |-> IF d[i].k = key THEN [k |-> key, v |-> val] ELSE d[i]]
  ELSE Append(d, [k |-> key, v |-> val])
DictValues(d) == [i \in 1..Len(d) |-> d[i].v]

\* ------------------------------------------------------------------------
\* load_cache / save_cache
\* ------------------------------------------------------------------------
\* The cache file: exists, whether its header has an 'institution' column,
\* and its data rows (the text of each field).
NoFile == [exists |-> FALSE, hasInstCol |-> FALSE, rows |-> <<>>]

\* the body of the try block raises (KeyError on row['institution'],
\* ValueError on float())
RowRaises(file, row) ==
  \/ ~file.hasInstCol
  \/ row.latitude # "" /\ row.latitude \notin FloatTexts
  \/ row.longitude # "" /\ row.longitude \notin FloatTexts
  \/ row.score # "" /\ row.score \notin FloatTexts

RowEntry(row) ==
  EnrichedInstitution(row.institution, row.matched_name, row.city, row.country_code,
    IF row.latitude # "" THEN FloatOf(row.latitude) ELSE NoneVal,
    IF row.longitude # "" THEN FloatOf(row.longitude) ELSE NoneVal,
    row.source, row.ror_id, row.openalex_id,
    IF row.score # "" THEN FloatOf(row.score) ELSE "f0.0")

RECURSIVE LoadRows(_, _, _, _)
LoadRows(file, i, cache, skip) ==
  IF i > Len(file.rows) THEN cache
  ELSE IF RowRaises(file, file.rows[i])
       THEN IF skip THEN LoadRows(file, i + 1, cache, skip) ELSE cache
       ELSE LoadRows(file, i + 1,
                     DictSet(cache, file.rows[i].institution, RowEntry(file.rows[i])), skip)

\* a loader that stops reading at the first row that raises
load_cache_abort(file) ==
  IF ~file.exists THEN <<>> ELSE LoadRows(file, 1, <<>>, FALSE)

load_cache(file) ==
  IF ~file.exists THEN <<>> ELSE LoadRows(file, 1, <<>>, TRUE)

SavedRow(r, now) ==
  [institution |-> r.institution, matched_name |-> r.matched_name, city |-> r.city,
   country_code |-> r.country_code,
   latitude |-> IF r.latitude # NoneVal THEN ReprFloat(r.latitude) ELSE "",
   longitude |-> IF r.longitude # NoneVal THEN ReprFloat(r.longitude) ELSE "",
   source |-> r.source, ror_id |-> r.ror_id, openalex_id |-> r.openalex_id,
   score |-> ReprFloat(r.score), updated_at |-> now]

save_cache(rows, now) ==
  [exists |-> TRUE, hasInstCol |-> TRUE,
   rows |-> [i \in 1..Len(rows) |-> SavedRow(rows[i], now)]]

\* ------------------------------------------------------------------------
\* read_unique_institutions
\* ------------------------------------------------------------------------
\* every candidate string of the model, in the order of Python's sorted()
SortedUniverse ==
  << <<"Bell", "Laboratory", ",", "Cambridge">>,
     <<"Centre", ",", "Research", "Center">>,
     <<"Department", "of", "CS", ",", "Stanford", "University">>,
     <<"ETH">>,
     <<"Kyoto", "University">>,
     <<"MIT">>,
     <<"RIKEN">>,
     <<"RIKEN", ",", "Kyoto", "University">>,
     <<"School", "of", "Law", ",", "Stanford", "University">>,
     <<"Stanford", "University">> >>

sorted(set) == SelectSeq(SortedUniverse, LAMBDA n : n \in set)

RECURSIVE AllCandidates(_)
AllCandidates(column) ==
  IF column = <<>> THEN <<>>
  ELSE (IF Head(column) = NotAString THEN <<>> ELSE _split_institutions(Head(column)))
       \o AllCandidates(Tail(column))

\* the two nested loops with their breaks; limit = 0 stands for None
RECURSIVE AddUntil(_, _, _)
AddUntil(cands, limit, unique) ==
  IF cands = <<>> THEN unique
  ELSE LET u == unique \cup {Head(cands)}
       IN IF limit # 0 /\ Cardinality(u) >= limit THEN u
          ELSE AddUntil(Tail(cands), limit, u)

read_unique_institutions(column, limit) ==
  sorted(AddUntil(AllCandidates(column), limit, {}))

\* ------------------------------------------------------------------------
\* query_ror / query_openalex
\* ------------------------------------------------------------------------
Failures == {"error", "non200", "badjson", "empty"}

Resp(kind, cty, lat, lng) == [kind |-> kind, city |-> cty, lat |-> lat, lng |-> lng]

\* what the primary directory may answer: a network error, a non-200 status,
\* an unparseable body, an empty item list, or a best item with or without
\* a city and coordinates
RorResponses ==
  {Resp(k, "", NoneVal, NoneVal) : k \in Failures}
  \cup {Resp("items", "", "f1.5", NoneVal),
        Resp("items", "Stanford", NoneVal, NoneVal), Resp("items", "", "f1.5", "f2.5")}

OpenalexResponses ==
  {Resp(k, "", NoneVal, NoneVal) : k \in Failures}
  \cup {Resp("items", "", NoneVal, NoneVal)}

NoResp == Resp("-", "", NoneVal, NoneVal)

\* Optional[EnrichedInstitution]: <<>> is None, <<e>> is e
query_ror(name, resp) ==
  IF resp.kind # "items" THEN <<>>
  ELSE <<EnrichedInstitution(name, "Matched", resp.city, "US", resp.lat, resp.lng,
                             "ror", "ror-id", "", "f0.9")>>

\* a secondary lookup that does not check the status code
query_openalex_NoStatusCheck(name, resp) ==
  IF resp.kind \notin {"items", "non200"} THEN <<>>
  ELSE <<EnrichedInstitution(name, "", "", "", NoneVal, NoneVal,
                             "openalex", "", "", "f0.0")>>

query_openalex(name, resp) ==
  IF resp.kind # "items" THEN <<>>
  ELSE <<EnrichedInstitution(name, "Matched", resp.city, "US", resp.lat, resp.lng,
                             "openalex", "", "oa-id", "f0.0")>>

\* an acceptance test that takes any primary result
RorAccepted_Any(r) == r # <<>>

\* r and (r.city or (r.latitude is not None and r.longitude is not None))
RorAccepted(r) ==
  /\ r # <<>>
  /\ (r[1].city # "" \/ (r[1].latitude # NoneVal /\ r[1].longitude # NoneVal))

\* what a response carried, as recorded in the trace of requests
Got(resp) ==
  IF resp.kind # "items" THEN "none"
  ELSE IF resp.city # "" THEN "city"
  ELSE IF resp.lat # NoneVal /\ resp.lng # NoneVal THEN "coords"
  ELSE IF resp.lat # NoneVal \/ resp.lng # NoneVal THEN "partial"
  ELSE "nogeo"

Event(dir, q, cand, got) == [dir |-> dir, q |-> q, cand |-> cand, got |-> got]

\* ------------------------------------------------------------------------
\* Characters: the written form of a token sequence
\* (tools/extract_institution_cities.py works on the characters of a name)
\* ------------------------------------------------------------------------
\* the characters of a word of the model's vocabulary
Chars(w) ==
  CASE w = "MIT"          -> <<"M", "I", "T">>
    [] w = "USI"          -> <<"U", "S", "I">>
    [] w = "Duisburg-Essen" ->
         <<"D", "u", "i", "s", "b", "u", "r", "g", "-", "E", "s", "s", "e", "n">>
    [] w = "USI<ddagger>"         -> <<"U", "S", "I", "<ddagger>">>
    [] w = "Harvard"      -> <<"H", "a", "r", "v", "a", "r", "d">>
    [] w = "Germany"      -> <<"G", "e", "r", "m", "a", "n", "y">>
    [] w = "United"       -> <<"U", "n", "i", "t", "e", "d">>
    [] w = "States"       -> <<"S", "t", "a", "t", "e", "s">>
    [] w = "University"   -> <<"U", "n", "i", "v", "e", "r", "s", "i", "t", "y">>
    [] w = "of"           -> <<"o", "f">>
    [] w = "Oxford"       -> <<"O", "x", "f", "o", "r", "d">>
    [] w = "Oxford2"      -> <<"O", "x", "f", "o", "r", "d", "2">>
    [] w = "unknown"      -> <<"u", "n", "k", "n", "o", "w", "n">>
    [] w = "RIKEN"        -> <<"R", "I", "K", "E", "N">>
    [] w = "mit"          -> <<"m", "i", "t">>
    [] w = "Science"      -> <<"S", "c", "i", "e", "n", "c", "e">>
    [] w = "and"          -> <<"a", "n", "d">>
    [] w = "Engineering"  -> <<"E", "n", "g", "i", "n", "e", "e", "r", "i", "n", "g">>
    [] w = "Department"   -> <<"D", "e", "p", "a", "r", "t", "m", "e", "n", "t">>
    [] w = "CS"           -> <<"C", "S">>
    [] w = "Stanford"     -> <<"S", "t", "a", "n", "f", "o", "r", "d">>
    [] w = "Kyoto"        -> <<"K", "y", "o", "t", "o">>
    [] w = "School"       -> <<"S", "c", "h", "o", "o", "l">>
    [] w = "Law"          -> <<"L", "a", "w">>
    [] w = "ETH"          -> <<"E", "T", "H">>
    [] w = "USA"          -> <<"U", "S", "A">>
    [] w = "US"           -> <<"U", "S">>
    [] w = "UK"           -> <<"U", "K">>
    [] w = "GB"           -> <<"G", "B">>
    [] w = "Kingdom"      -> <<"K", "i", "n", "g", "d", "o", "m">>
    [] w = "Japan"        -> <<"J", "a", "p", "a", "n">>
    [] w = "South"        -> <<"S", "o", "u", "t", "h">>
    [] w = "Korea"        -> <<"K", "o", "r", "e", "a">>
    [] w = "Cambridge"    -> <<"C", "a", "m", "b", "r", "i", "d", "g", "e">>
    [] w = "Lugano"       -> <<"L", "u", "g", "a", "n", "o">>
    [] w = "Berlin"       -> <<"B", "e", "r", "l", "i", "n">>
    [] w = "Washington"   -> <<"W", "a", "s", "h", "i", "n", "g", "t", "o", "n">>
    [] w = "Tokyo"        -> <<"T", "o", "k", "y", "o">>
    [] w = "London"       -> <<"L", "o", "n", "d", "o", "n">>
    [] w = "Seoul"        -> <<"S", "e", "o", "u", "l">>
    [] w = "Paris"        -> <<"P", "a", "r", "i", "s">>
    [] w = "Bern"         -> <<"B", "e", "r", "n">>
    [] w = "California"   -> <<"C", "a", "l", "i", "f", "o", "r", "n", "i", "a">>
    [] w = "MIT2"         -> <<"M", "I", "T", "2">>
    [] w = "Dept"         -> <<"D", "e", "p", "t">>
    [] w = "Bell"         -> <<"B", "e", "l", "l">>
    [] w = "Laboratory"   -> <<"L", "a", "b", "o", "r", "a", "t", "o", "r", "y">>
    [] w = "university"   -> <<"u", "n", "i", "v", "e", "r", "s", "i", "t", "y">>
    [] w = "institute"    -> <<"i", "n", "s", "t", "i", "t", "u", "t", "e">>
    [] w = "research"     -> <<"r", "e", "s", "e", "a", "r", "c", "h">>
    [] w = "college"      -> <<"c", "o", "l", "l", "e", "g", "e">>
    [] w = "laboratory"   -> <<"l", "a", "b", "o", "r", "a", "t", "o", "r", "y">>
    [] w = "laboratories" -> <<"l", "a", "b", "o", "r", "a", "t", "o", "r", "i", "e", "s">>
    [] w = "lab"          -> <<"l", "a", "b">>
    [] w = "school"       -> <<"s", "c", "h", "o", "o", "l">>
    [] w = "faculty"      -> <<"f", "a", "c", "u", "l", "t", "y">>
    [] w = "department"   -> <<"d", "e", "p", "a", "r", "t", "m", "e", "n", "t">>
    [] w = "centre"       -> <<"c", "e", "n", "t", "r", "e">>
    [] w = "center"       -> <<"c", "e", "n", "t", "e", "r">>
    [] w = "cnrs"         -> <<"c", "n", "r", "s">>
    [] w = "inrae"        -> <<"i", "n", "r", "a", "e">>
    [] w = "riken"        -> <<"r", "i", "k", "e", "n">>
    [] w = "aip"          -> <<"a", "i", "p">>
    [] w = "academy"      -> <<"a", "c", "a", "d", "e", "m", "y">>
    [] w = "national"     -> <<"n", "a", "t", "i", "o", "n", "a", "l">>
    [] w = "inria"        -> <<"i", "n", "r", "i", "a">>
    [] w = "iit"          -> <<"i", "i", "t">>
    [] w = "technion"     -> <<"t", "e", "c", "h", "n", "i", "o", "n">>
    [] w = "politecnico"  -> <<"p", "o", "l", "i", "t", "e", "c", "n", "i", "c", "o">>
    [] w = "company"      -> <<"c", "o", "m", "p", "a", "n", "y">>
    [] w = "corp"         -> <<"c", "o", "r", "p">>
    [] w = "inc"          -> <<"i", "n", "c">>
    [] w = "ltd"          -> <<"l", "t", "d">>
    [] w = "llc"          -> <<"l", "l", "c">>
    [] w = "hospital"     -> <<"h", "o", "s", "p", "i", "t", "a", "l">>
    [] w = "clinic"       -> <<"c", "l", "i", "n", "i", "c">>
    [] w = "medical"      -> <<"m", "e", "d", "i", "c", "a", "l">>
    [] w = "hospitality"  -> <<"h", "o", "s", "p", "i", "t", "a", "l", "i", "t", "y">>
    [] w = "ai"           -> <<"a", "i">>
    [] w = "usa"          -> <<"u", "s", "a">>
    [] w = "us"           -> <<"u", "s">>
    [] w = "united"       -> <<"u", "n", "i", "t", "e", "d">>
    [] w = "states"       -> <<"s", "t", "a", "t", "e", "s">>
    [] w = "uk"           -> <<"u", "k">>
    [] w = "kingdom"      -> <<"k", "i", "n", "g", "d", "o", "m">>
    [] w = "germany"      -> <<"g", "e", "r", "m", "a", "n", "y">>
    [] w = "france"       -> <<"f", "r", "a", "n", "c", "e">>
    [] w = "japan"        -> <<"j", "a", "p", "a", "n">>
    [] w = "switzerland"  -> <<"s", "w", "i", "t", "z", "e", "r", "l", "a", "n", "d">>
    [] w = "south"        -> <<"s", "o", "u", "t", "h">>
    [] w = "korea"        -> <<"k", "o", "r", "e", "a">>
    [] w = "singapore"    -> <<"s", "i", "n", "g", "a", "p", "o", "r", "e">>
    [] w = "luxembourg"   -> <<"l", "u", "x", "e", "m", "b", "o", "u", "r", "g">>
    [] w = "monaco"       -> <<"m", "o", "n", "a", "c", "o">>
    [] w = "hong"         -> <<"h", "o", "n", "g">>
    [] w = "kong"         -> <<"k", "o", "n", "g">>
    [] w = "macau"        -> <<"m", "a", "c", "a", "u">>
    [] w = "vatican"      -> <<"v", "a", "t", "i", "c", "a", "n">>
    [] w = "city"         -> <<"c", "i", "t", "y">>
    [] w = "di"           -> <<"d", "i">>
    [] w = "de"           -> <<"d", "e">>
    [] w = "at"           -> <<"a", "t">>
    [] w = "U.S"          -> <<"U", ".", "S">>
    [] w = "U.SA"         -> <<"U", ".", "S", "A">>
    [] w = "U.S.A"        -> <<"U", ".", "S", ".", "A">>
    [] w = "CNRS"         -> <<"C", "N", "R", "S">>
    [] w = "INRAE"        -> <<"I", "N", "R", "A", "E">>
    [] w = "n/a"          -> <<"n", "/", "a">>
    [] w = "na"           -> <<"n", "a">>
    [] w = "none"         -> <<"n", "o", "n", "e">>
    [] w = "Unknown"      -> <<"U", "n", "k", "n", "o", "w", "n">>
    [] w = "And"          -> <<"A", "n", "d">>
    [] w = "Center"       -> <<"C", "e", "n", "t", "e", "r">>
    [] w = "Centre"       -> <<"C", "e", "n", "t", "r", "e">>
    [] w = "Institute"    -> <<"I", "n", "s", "t", "i", "t", "u", "t", "e">>
    [] w = "Research"     -> <<"R", "e", "s", "e", "a", "r", "c", "h">>
    [] w = "College"      -> <<"C", "o", "l", "l", "e", "g", "e">>
    [] w = "Faculty"      -> <<"F", "a", "c", "u", "l", "t", "y">>
    [] w = "Singapore"    -> <<"S", "i", "n", "g", "a", "p", "o", "r", "e">>
    [] OTHER              -> <<w>>

RECURSIVE RenderTail(_)
RenderTail(t) ==
  IF t = <<>> THEN <<>>
  ELSE (IF Head(t) \in Punct THEN <<>> ELSE <<" ">>) \o Chars(Head(t)) \o RenderTail(Tail(t))

\* the string a token sequence stands for
Render(t) == IF t = <<>> THEN <<>> ELSE Chars(Head(t)) \o RenderTail(Tail(t))

UpperLetters ==
  <<"A", "B", "C", "D", "E", "F", "G", "H", "I", "J", "K", "L", "M",
    "N", "O", "P", "Q", "R", "S", "T", "U", "V", "W", "X", "Y", "Z">>
LowerLetters ==
  <<"a", "b", "c", "d", "e", "f", "g", "h", "i", "j", "k", "l", "m",
    "n", "o", "p", "q", "r", "s", "t", "u", "v", "w", "x", "y", "z">>
UpperSet == {UpperLetters[i] : i \in 1..26}
LowerSet == {LowerLetters[i] : i \in 1..26}
Digits == {"0", "1", "2", "3", "4", "5", "6", "7", "8", "9"}
\* the accented letters of the model; a character outside ASCII is written
\* as its name between angle brackets
AccentedUpper == {"<E-acute>"}
AccentedLower == {"<e-acute>", "<o-uml>", "<u-uml>"}
\* characters matched by \w
WordChars == UpperSet \cup LowerSet \cup Digits \cup AccentedUpper \cup AccentedLower \cup {"_"}

\* str.lower() on one character
LowerChar(c) ==
  IF c \in UpperSet THEN LowerLetters[CHOOSE i \in 1..26 : UpperLetters[i] = c]
  ELSE IF c = "<E-acute>" THEN "<e-acute>" ELSE c

\* str.lower()
LowerS(s) == [i \in 1..Len(s) |-> LowerChar(s[i])]

\* unicodedata.normalize('NFKD', ch) without its combining marks
StripAccent(c) ==
  CASE c = "<E-acute>" -> "E"
    [] c = "<e-acute>" -> "e"
    [] c = "<o-uml>" -> "o"
    [] c = "<u-uml>" -> "u"
    [] OTHER   -> c

\* str.strip()
StripS(s) == DropEndWhile(DropWhile(s, {" "}), {" "})

\* re.sub(r"\s+", ' ', s)
RECURSIVE CollapseSpaces(_)
CollapseSpaces(s) ==
  IF s = <<>> THEN <<>>
  ELSE IF Len(s) >= 2 /\ s[1] = " " /\ s[2] = " " THEN CollapseSpaces(Tail(s))
  ELSE <<Head(s)>> \o CollapseSpaces(Tail(s))

\* the non-empty pieces of re.split(r"[<seps>]+", s)
RECURSIVE SplitRuns(_, _, _)
SplitRuns(s, seps, cur) ==
  IF s = <<>> THEN (IF cur = <<>> THEN <<>> ELSE <<cur>>)
  ELSE IF Head(s) \in seps
       THEN (IF cur = <<>> THEN <<>> ELSE <<cur>>) \o SplitRuns(Tail(s), seps, <<>>)
       ELSE SplitRuns(Tail(s), seps, Append(cur, Head(s)))

\* needle in hay
Contains(hay, needle) ==
  \E i \in 0..(Len(hay) - Len(needle)) : SubSeq(hay, i + 1, i + Len(needle)) = needle

StartsWith(s, p) == Len(s) >= Len(p) /\ SubSeq(s, 1, Len(p)) = p
EndsWith(s, p) == Len(s) >= Len(p) /\ SubSeq(s, Len(s) - Len(p) + 1, Len(s)) = p

\* s.replace(p, '')
RECURSIVE RemoveAll(_, _)
RemoveAll(s, p) ==
  IF s = <<>> THEN <<>>
  ELSE IF StartsWith(s, p) THEN RemoveAll(SubSeq(s, Len(p) + 1, Len(s)), p)
  ELSE <<Head(s)>> \o RemoveAll(Tail(s), p)

\* ------------------------------------------------------------------------
\* _split_simple
\* ------------------------------------------------------------------------
\* ei is TRUE when `import enrich_institutions` succeeded.  Without it the
\* pattern r"[;|]\\s*" asks for a backslash after the delimiter, which no
\* name of the model contains, so the value is returned whole.
_split_simple(value, ei) ==
  IF value = NotAString \/ Strip(value) = <<>> THEN <<>>
  ELSE IF ei THEN NonEmpty(_split_institutions(value))
  ELSE <<Strip(value)>>

\* ------------------------------------------------------------------------
\* Tables of the heuristic variant
\* ------------------------------------------------------------------------
ORG_WORDS ==
  {Chars(w) : w \in
    {"university", "institute", "research", "college", "laboratory", "laboratories",
     "lab", "school", "faculty", "department", "centre", "center", "cnrs", "inrae",
     "riken", "aip", "academy", "national", "inria", "iit", "technion", "politecnico",
     "mit", "ai", "company", "corp", "inc", "ltd", "llc", "hospital", "clinic",
     "medical", "hospitality"}}

\* the entries of COUNTRY_WORDS for the countries of the model, in the
\* order of the dict
COUNTRY_WORDS ==
  << [k |-> <<"usa">>,               v |-> "US"],
     [k |-> <<"us">>,                v |-> "US"],
     [k |-> <<"united", "states">>,  v |-> "US"],
     [k |-> <<"uk">>,                v |-> "GB"],
     [k |-> <<"united", "kingdom">>, v |-> "GB"],
     [k |-> <<"germany">>,           v |-> "DE"],
     [k |-> <<"france">>,            v |-> "FR"],
     [k |-> <<"hong", "kong">>,      v |-> "HK"],
     [k |-> <<"japan">>,             v |-> "JP"],
     [k |-> <<"switzerland">>,       v |-> "CH"],
     [k |-> <<"singapore">>,         v |-> "SG"],
     [k |-> <<"south", "korea">>,    v |-> "KR"],
     [k |-> <<"korea">>,             v |-> "KR"] >>

CountryKeys == {Render(COUNTRY_WORDS[i].k) : i \in 1..Len(COUNTRY_WORDS)}

CITY_STATES ==
  {Render(k) : k \in {<<"singapore">>, <<"luxembourg">>, <<"monaco">>, <<"hong", "kong">>,
                      <<"macau">>, <<"vatican", "city">>}}

\* CAPITALS, for the country codes of the model ("" when the code has none)
CAPITALS(code) ==
  CASE code = "US" -> Chars("Washington")
    [] code = "GB" -> Chars("London")
    [] code = "DE" -> Chars("Berlin")
    [] code = "FR" -> Chars("Paris")
    [] code = "CH" -> Chars("Bern")
    [] code = "SG" -> Chars("Singapore")
    [] code = "KR" -> Chars("Seoul")
    [] code = "JP" -> Chars("Tokyo")
    [] OTHER       -> <<>>

\* the entries of ALIAS_CITY for the institutions of the model, in the
\* order of the dict
ALIAS_CITY ==
  << [k |-> Render(<<"MIT">>),                    v |-> <<Chars("Cambridge"), "US">>],
     [k |-> Render(<<"Stanford", "University">>), v |-> <<Chars("Stanford"), "US">>],
     [k |-> Render(<<"Harvard">>),                v |-> <<Chars("Cambridge"), "US">>],
     [k |-> Render(<<"Harvard", "University">>),  v |-> <<Chars("Cambridge"), "US">>],
     [k |-> Render(<<"RIKEN">>),                  v |-> <<Chars("Tokyo"), "JP">>],
     [k |-> Render(<<"CNRS">>),                   v |-> <<Chars("Paris"), "FR">>],
     [k |-> Render(<<"USI">>),                    v |-> <<Chars("Lugano"), "CH">>],
     [k |-> Render(<<"USI<ddagger>">>),                   v |-> <<Chars("Lugano"), "CH">>] >>

\* ------------------------------------------------------------------------
\* norm_basic, is_noise_name
\* ------------------------------------------------------------------------
\* characters removed by the first re.sub of norm_basic / norm_key
DroppedMarks == {"<endash>", "<emdash>", "<rsquo>", "<lsquo>", "<acute>"}
\* characters kept by re.sub(r"[^a-z0-9+&@#\-\s]", '', s)
KeptChars == LowerSet \cup Digits \cup {"+", "&", "@", "#", "-", " "}

norm_basic(s) ==
  LET a == [i \in 1..Len(s) |-> LowerChar(StripAccent(s[i]))]
      b == SelectSeq(a, LAMBDA c : c \notin DroppedMarks)
      d == SelectSeq(b, LAMBDA c : c \in KeptChars)
  IN StripS(CollapseSpaces(d))

NOISE_NAMES == {Chars(w) : w \in {"inc", "ltd", "research", "faculty"}}

is_noise_name(nm) ==
  LET n == norm_basic(nm)
  IN \/ n = <<>>
     \/ n \in NOISE_NAMES
     \/ \A i \in 1..Len(n) : n[i] \in Digits
     \/ Len(n) = 1

\* ------------------------------------------------------------------------
\* likely_city_segment, extract_city
\* ------------------------------------------------------------------------
CapFirst == UpperSet \cup AccentedUpper
CapRest == UpperSet \cup LowerSet \cup AccentedUpper \cup AccentedLower \cup {"-", "'"}

\* CAP.match(w)
CAP(w) == Len(w) >= 2 /\ w[1] \in CapFirst /\ \A i \in 2..Len(w) : w[i] \in CapRest

\* re.sub(r'^\s*\d+[\s,]*', '', s)
DropLeadingDigits(s) ==
  LET a == DropWhile(s, {" "})
  IN IF a # <<>> /\ Head(a) \in Digits
     THEN DropWhile(DropWhile(a, Digits), {" ", ","})
     ELSE s

likely_city_segment(seg) ==
  LET s0    == StripS(seg)
      retry == s0 = <<>> \/ \E i \in 1..Len(s0) : s0[i] \in Digits
      s     == IF retry THEN StripS(DropLeadingDigits(s0)) ELSE s0
      sl    == LowerS(s)
      words == SplitRuns(s, {" "}, <<>>)
  IN IF s = <<>> THEN FALSE
     ELSE IF sl \in ORG_WORDS THEN FALSE
     ELSE IF sl \in CountryKeys /\ sl \notin CITY_STATES THEN FALSE
     ELSE /\ Len(words) <= 3
          /\ \A i \in 1..Len(words) : CAP(words[i])
          /\ ~(\A i \in 1..Len(words) : LowerS(words[i]) \in ORG_WORDS)

\* re.sub(r"\((?:[^)]*)\)$", "", s)
DropTrailingParen(s) ==
  LET n     == Len(s)
      opens == {i \in 1..(n - 1) : s[i] = "(" /\ \A j \in (i + 1)..(n - 1) : s[j] # ")"}
  IN IF n >= 2 /\ s[n] = ")" /\ opens # {}
     THEN SubSeq(s, 1, (CHOOSE i \in opens : \A j \in opens : i <= j) - 1)
     ELSE s

TrailingCodes == {Chars(w) : w \in {"US", "USA", "UK", "GB", "U.S", "U.SA", "U.S.A"}}

\* re.sub(r"\b(US|USA|U\.S\.?A?\.?|UK|GB)\b$", "", s)
DropTrailingCode(s) ==
  LET n    == Len(s)
      hits == {t \in TrailingCodes :
                 /\ EndsWith(s, t)
                 /\ (n = Len(t) \/ s[n - Len(t)] \notin WordChars)}
  IN IF hits = {} THEN s
     ELSE SubSeq(s, 1, n - Len(CHOOSE t \in hits : \A u \in hits : Len(u) <= Len(t)))

\* (?:\b(?:di|de|of|at)\s+)? matched at i: the position after it, or 0
PrefixEnd(s, i) ==
  IF /\ (i = 1 \/ s[i - 1] \notin WordChars)
     /\ i + 2 <= Len(s)
     /\ SubSeq(s, i, i + 1) \in {Chars("di"), Chars("de"), Chars("of"), Chars("at")}
     /\ s[i + 2] = " "
  THEN CHOOSE j \in (i + 3)..(Len(s) + 1) :
         /\ j = Len(s) + 1 \/ s[j] # " "
         /\ \A m \in (i + 2)..(j - 1) : s[m] = " "
  ELSE 0

\* one to three capitalised words from j to the end of s
GroupAt(s, j) ==
  /\ j >= 1 /\ j <= Len(s)
  /\ s[j] # " "
  /\ LET words == SplitRuns(SubSeq(s, j, Len(s)), {" "}, <<>>)
     IN Len(words) >= 1 /\ Len(words) <= 3 /\ \A i \in 1..Len(words) : CAP(words[i])

\* m.group(1) of the re.search of extract_city: the leftmost match, <<>>
\* when there is none
GroupOfSearch(s) ==
  LET starts == {i \in 1..Len(s) : GroupAt(s, PrefixEnd(s, i)) \/ GroupAt(s, i)}
      i0     == CHOOSE i \in starts : \A j \in starts : i <= j
  IN IF starts = {} THEN <<>>
     ELSE IF GroupAt(s, PrefixEnd(s, i0)) THEN SubSeq(s, PrefixEnd(s, i0), Len(s))
     ELSE SubSeq(s, i0, Len(s))

\* cand.split('-')[-1]
AfterLastHyphen(c) ==
  LET hy == {i \in 1..Len(c) : c[i] = "-"}
  IN IF hy = {} THEN c
     ELSE SubSeq(c, (CHOOSE i \in hy : \A j \in hy : j <= i) + 1, Len(c))

\* the fallback of extract_city: a city at the end of an organisation phrase
EmbeddedCity(raw) ==
  LET s     == StripS(DropTrailingCode(StripS(DropTrailingParen(StripS(raw)))))
      cand  == AfterLastHyphen(StripS(GroupOfSearch(s)))
      words == SplitRuns(cand, {" "}, <<>>)
  IN IF StripS(raw) = <<>> THEN <<>>
     ELSE IF /\ Len(words) > 0 /\ Len(words) <= 3
             /\ \A i \in 1..Len(words) : CAP(words[i])
             /\ ~(\A i \in 1..Len(words) :
                     LowerS(words[i]) \in ORG_WORDS \/ LowerS(words[i]) \in CountryKeys)
          THEN cand
          ELSE <<>>

extract_city(raw) ==
  LET parts  == SplitRuns(raw, {" ", ",", "<endash>", "<emdash>"}, <<>>)
      likely == {i \in 1..Len(parts) : likely_city_segment(parts[i])}
      i      == CHOOSE i \in likely : \A j \in likely : j <= i
  IN IF likely = {} THEN EmbeddedCity(raw)
     ELSE IF i - 1 >= 1 /\ likely_city_segment(parts[i - 1])
          THEN StripS(parts[i - 1] \o <<" ">> \o parts[i])
          ELSE parts[i]

\* ------------------------------------------------------------------------
\* extract_country_hint, apply_alias
\* ------------------------------------------------------------------------
\* the first key of COUNTRY_WORDS, in dict order, that occurs in the
\* lower-cased text
extract_country_hint(raw) ==
  LET text == LowerS(raw)
      hits == {i \in 1..Len(COUNTRY_WORDS) : Contains(text, Render(COUNTRY_WORDS[i].k))}
  IN IF hits = {} THEN ""
     ELSE COUNTRY_WORDS[CHOOSE i \in hits : \A j \in hits : i <= j].v

norm_key(s) == norm_basic(s)

\* {norm_key(k): v for k, v in ALIAS_CITY.items()}
RECURSIVE AliasNormFrom(_, _)
AliasNormFrom(i, d) ==
  IF i > Len(ALIAS_CITY) THEN d
  ELSE AliasNormFrom(i + 1, DictSet(d, norm_key(ALIAS_CITY[i].k), ALIAS_CITY[i].v))

alias_norm == AliasNormFrom(1, <<>>)

FootnoteChars ==
  {" ", "<dagger>", "<ddagger>", "<section>", "<pilcrow>", "<degree>", "<sup1>", "<sup2>", "<sup3>", "*", "^", "+", "-"} \cup Digits

strip_footnotes(s) == StripS(DropEndWhile(s, FootnoteChars))

country_code_for(text) ==
  LET t    == norm_key(text)
      hits == {i \in 1..Len(COUNTRY_WORDS) : t = norm_key(Render(COUNTRY_WORDS[i].k))}
  IN IF hits = {} THEN ""
     ELSE COUNTRY_WORDS[CHOOSE i \in hits : \A j \in hits : i <= j].v

\* country_hint or cc
Or(a, b) == IF a # "" THEN a ELSE b

\* returns <<city, country>>
apply_alias(core0, raw0, city0, country_hint) ==
  LET calif == Chars("California") \o <<" ">>
      city  == IF city0 # <<>> /\ StartsWith(city0, calif)
               THEN StripS(RemoveAll(city0, calif)) ELSE city0
      core  == strip_footnotes(core0)
      raw   == strip_footnotes(raw0)
      key   == StripS(core)
      nkey  == norm_key(key)
      nraw  == norm_key(raw)
      hits  == {i \in 1..Len(alias_norm) : Contains(nraw, alias_norm[i].k)}
      first == alias_norm[CHOOSE i \in hits : \A j \in hits : i <= j].v
      code  == Or(country_code_for(core), country_code_for(raw))
  IN IF DictHas(ALIAS_CITY, key)
     THEN <<DictGet(ALIAS_CITY, key)[1], Or(country_hint, DictGet(ALIAS_CITY, key)[2])>>
     ELSE IF DictHas(alias_norm, nkey)
     THEN <<DictGet(alias_norm, nkey)[1], Or(country_hint, DictGet(alias_norm, nkey)[2])>>
     ELSE IF hits # {}
     THEN <<first[1], Or(country_hint, first[2])>>
     ELSE IF city = <<>> /\ code # "" /\ CAPITALS(code) # <<>>
     THEN <<CAPITALS(code), code>>
     ELSE <<city, country_hint>>

\* ------------------------------------------------------------------------
\* main of the heuristic variant
\* ------------------------------------------------------------------------
\* the loop that builds split_uniques (seen_raw is the set of its elements)
RECURSIVE SplitUniques(_, _, _)
SplitUniques(cands, i, acc) ==
  IF i > Len(cands) THEN acc
  ELSE SplitUniques(cands, i + 1,
         IF \E j \in 1..Len(acc) : acc[j] = cands[i] THEN acc ELSE Append(acc, cands[i]))

RECURSIVE AllSimple(_, _)
AllSimple(column, ei) ==
  IF column = <<>> THEN <<>>
  ELSE (IF Head(column) = NotAString THEN <<>> ELSE _split_simple(Head(column), ei))
       \o AllSimple(Tail(column), ei)

split_uniques(column, ei) == SplitUniques(AllSimple(column, ei), 1, <<>>)

\* core = ei.normalize_institution(inst) or inst
CoreOf(inst, ei) ==
  IF ei /\ normalize_institution(inst) # <<>> THEN normalize_institution(inst) ELSE inst

\* the body of the extraction loop for one candidate: <<>> when the
\* candidate is skipped, else the one row it appends.  Each local variable
\* of the loop body is bound once (by \in) before it is used.
HeuristicRows(inst0, ei) ==
  CHOOSE rows \in
    { IF inst = <<>> /\ core = <<>> THEN <<>>
      ELSE CHOOSE row \in
             { << [institution_raw |-> inst, institution_core |-> core,
                   city_guess |-> res[1], country_hint |-> res[2], source |-> "heuristic"] >> :
               res \in { apply_alias(Render(core), Render(inst), city, hint) :
                           city \in {extract_city(Render(inst))},
                           hint \in {extract_country_hint(Render(inst))} } } : TRUE :
      core \in {IF is_noise_name(Render(CoreOf(inst0, ei))) THEN <<>> ELSE CoreOf(inst0, ei)},
      inst \in {IF is_noise_name(Render(inst0)) THEN <<>> ELSE inst0} } : TRUE

\* ------------------------------------------------------------------------
\* all_papers.csv and the programs that read or rewrite it:
\* web_interface.py, test_japan.py, test_json.py, convert_country_separators.py
\* ------------------------------------------------------------------------
\* A text cell is a token sequence; in Author_Countries the tokens are country
\* names, the separators "," and ";" and " " for a blank. NaN is a missing
\* cell.
NaN == <<"<NaN>">>

Paper(t, a, c, y, s, ac) ==
  [Title |-> t, Authors |-> a, Conference |-> c, Year |-> y, Status |-> s,
   Author_Countries |-> ac]

NoPapers == [exists |-> FALSE, rows |-> <<>>]

\* the data files a program may find: none, one written with semicolons, one
\* written with commas
Frames ==
  { NoPapers,
    [exists |-> TRUE,
     rows |-> << Paper(<<"Research", "Center">>, <<"Bell">>, <<"ICML">>, 2024, <<"Poster">>,
                       <<"Japan", ";", " ", "China">>),
                 Paper(<<"Science">>, <<"Law">>, <<"NeurIPS">>, 2023, <<"Reject">>, NaN),
                 Paper(<<"Science">>, <<"Bell">>, <<"ICML">>, 2023, <<"Poster">>, <<"Japan">>) >>],
    [exists |-> TRUE,
     rows |-> << Paper(<<"Research", "Center">>, <<"Bell">>, <<"ICML">>, 2024, NaN,
                       <<"China", ",", " ", "Japan">>),
                 Paper(<<"Science">>, <<"Law">>, <<"NeurIPS">>, 2024, <<"Withdraw">>,
                       <<"Kingdom of Saudi Arabia">>),
                 Paper(NaN, <<"Law">>, <<"NeurIPS">>, 2023, <<"Poster">>, <<" ">>) >>] }

\* x in list
In(x, list) == \E j \in 1..Len(list) : list[j] = x

\* Series.str.contains(pat, case=False, na=False), for a pattern of letters
StrContains(cell, pat) ==
  /\ cell # NaN
  /\ \E hay \in {LowerS(Render(cell))}, needle \in {LowerS(Render(pat))} :
       Contains(hay, needle)

\* countries_str.split(sep), each part stripped, the empty parts dropped
CountryList(countries_str, sep) ==
  NonEmpty(StripAll(SplitAt(countries_str,
                            {i \in 1..Len(countries_str) : countries_str[i] = sep}, 1, <<>>)))

\* filter_papers.has_selected_country
has_selected_country(countries_str, selected_countries) ==
  IF countries_str = NaN \/ Strip(countries_str) = <<>> THEN FALSE
  ELSE LET countries == CountryList(countries_str, ",")
       IN \E i \in 1..Len(countries) :
            \/ In(countries[i], selected_countries)
            \/ /\ countries[i] = <<"Kingdom of Saudi Arabia">>
               /\ In(<<"Saudi Arabia">>, selected_countries)
            \/ /\ countries[i] = <<"State of Palestine">>
               /\ In(<<"Palestine">>, selected_countries)
            \/ /\ countries[i] = <<"T<u-uml>rkiye">>
               /\ In(<<"Turkey">>, selected_countries)

\* has_selected_country of test_japan.py
test_japan_has_selected_country(countries_str, selected_countries) ==
  IF countries_str = NaN \/ Strip(countries_str) = <<>> THEN FALSE
  ELSE LET countries == CountryList(countries_str, ";")
       IN \E i \in 1..Len(selected_countries) : In(selected_countries[i], countries)

\* has_selected_country of test_json.py
test_json_has_selected_country(countries_str, selected_countries) ==
  IF countries_str = NaN \/ Strip(countries_str) = <<>> THEN FALSE
  ELSE LET countries == CountryList(countries_str, ";")
       IN \E i \in 1..Len(selected_countries) : In(selected_countries[i], countries)

exclude_statuses == {<<"Reject">>, <<"Withdraw">>, <<"Desk", "Reject">>, <<"Desk", "Rejected">>}

\* request.args.get('year_min', type=int) without the parameter: None
NoYear == 0 - 1

\* the request parameters as the handlers read them
Query(t, a, cs, vs, ymin, ymax, unk, rej) ==
  [title |-> t, author |-> a, countries |-> cs, venues |-> vs, year_min |-> ymin,
   year_max |-> ymax, include_unknown |-> unk, include_rejected |-> rej]

filter_papers(df, q) ==
  LET byTitle   == IF q.title # <<>>
                   THEN SelectSeq(df, LAMBDA p : StrContains(p.Title, q.title)) ELSE df
      byAuthor  == IF q.author # <<>>
                   THEN SelectSeq(byTitle, LAMBDA p : StrContains(p.Authors, q.author))
                   ELSE byTitle
      byCountry == IF q.countries # <<>>
                   THEN SelectSeq(byAuthor,
                          LAMBDA p : has_selected_country(p.Author_Countries, q.countries))
                   ELSE byAuthor
      byVenue   == IF q.venues # <<>>
                   THEN SelectSeq(byCountry, LAMBDA p : In(p.Conference, q.venues))
                   ELSE byCountry
      fromYear  == IF q.year_min # NoYear
                   THEN SelectSeq(byVenue, LAMBDA p : p.Year >= q.year_min) ELSE byVenue
      toYear    == IF q.year_max # NoYear
                   THEN SelectSeq(fromYear, LAMBDA p : p.Year <= q.year_max) ELSE fromYear
  IN IF ~q.include_rejected
     THEN SelectSeq(toYear, LAMBDA p : p.Status \notin exclude_statuses)
     ELSE toYear

\* DataFrame.drop_duplicates(): the first of equal rows is kept
RECURSIVE drop_duplicates(_, _)
drop_duplicates(rows, seen) ==
  IF rows = <<>> THEN <<>>
  ELSE IF Head(rows) \in seen THEN drop_duplicates(Tail(rows), seen)
  ELSE <<Head(rows)>> \o drop_duplicates(Tail(rows), seen \cup {Head(rows)})

\* filter_papers, then the include_unknown step of search and export_csv
Filtered(df, q) ==
  IF q.include_unknown
  THEN drop_duplicates(
         filter_papers(df, q)
           \o SelectSeq(df, LAMBDA p : p.Author_Countries = NaN
                                         \/ Strip(p.Author_Countries) = <<>>),
         {})
  ELSE filter_papers(df, q)

max_results == 1000

\* a missing text cell leaves the program as the empty string
Cell(v) == IF v = NaN THEN <<>> ELSE v

\* one element of 'results' in the JSON of /search, one line of the CSV of
\* /export_csv
OutRow(p) ==
  [title |-> Cell(p.Title), authors |-> Cell(p.Authors), conference |-> Cell(p.Conference),
   year |-> p.Year, countries |-> Cell(p.Author_Countries),
   status |-> Cell(p.Status)]

OutRows(rows) == [i \in 1..Len(rows) |-> OutRow(rows[i])]

\* request.args of the model
Queries ==
  { Query(t, a, cs, vs, y, y, unk, rej) :
      t \in {<<>>, <<"research">>}, a \in {<<>>, <<"Bell">>},
      cs \in {<<>>, << <<"Japan">>, <<"Saudi Arabia">> >>},
      vs \in {<<>>, << <<"ICML">> >>},
      y \in {NoYear, 2024},
      unk \in BOOLEAN, rej \in BOOLEAN }

NoQuery == Query(<<>>, <<>>, <<>>, <<>>, NoYear, NoYear, FALSE, FALSE)

NoOut == [op |-> "none", query |-> NoQuery, status |-> "none", rows |-> <<>>, total |-> 0]

\* str.replace(';', ',') on a column read back from the written file
Converted(rows) ==
  [i \in 1..Len(rows) |->
     LET c == rows[i].Author_Countries
     IN [rows[i] EXCEPT !.Author_Countries =
           IF c = NaN THEN NaN ELSE [j \in 1..Len(c) |-> IF c[j] = ";" THEN "," ELSE c[j]]]]

\* ------------------------------------------------------------------------
\* State
\* ------------------------------------------------------------------------
VARIABLES
  disk,        \* the cache file at args.out
  input,       \* the Author_Institutions column of the input CSV
  pc,          \* position of main(): idle, ror_name, oa_name, ror_core, oa_core, record, save,
               \* aborted
  runs,        \* number of completed runs (also the clock of updated_at)
  args,        \* --refresh-missing and --max of the current run
  cache,       \* main.cache
  unique,      \* main.unique
  updated,     \* main.updated
  to_process,  \* main.to_process
  idx,         \* position of the for loop in to_process
  enr,         \* the value enrich_institution returns
  resp,        \* the last answer of an external directory
  log,         \* the requests issued since the last sleep, in order
  queried,     \* the candidates for which a request was issued in this run
  prev,        \* summary of the last completed run (and the flags of the one before)
  csv,         \* the input CSV: ok, missing (or unreadable), nocolumn
  outfile,     \* the file at args.out of the heuristic variant
  heur,        \* the last run of the heuristic variant: how it ended, whether the
               \* import succeeded, what _split_simple returned for each row,
               \* split_uniques, and how the final summary print ended (the
               \* percentage divides by len(split_uniques))
  papers,      \* all_papers.csv as the web interface and the test scripts read it
  backup,      \* all_papers_backup.csv
  out          \* what the last request, test script or conversion answered

\* the variables of the two geocoding variants
vars0 == <<disk, input, pc, runs, args, cache, unique, updated, to_process, idx,
           enr, resp, log, queried, prev, csv, outfile, heur>>

vars == <<disk, input, pc, runs, args, cache, unique, updated, to_process, idx,
          enr, resp, log, queried, prev, csv, outfile, heur, papers, backup, out>>

FileRow(inst, mname, cty, cc, lat, lng, src, rid, oid, sc) ==
  [institution |-> inst, matched_name |-> mname, city |-> cty, country_code |-> cc,
   latitude |-> lat, longitude |-> lng, source |-> src, ror_id |-> rid,
   openalex_id |-> oid, score |-> sc, updated_at |-> 0]

\* cache files a run may find: none, a file of another format (no
\* 'institution' column), a file with resolved, missed, malformed and
\* no-longer-used rows, a file with a blank source
InitialDisks ==
  { NoFile,
    [exists |-> TRUE, hasInstCol |-> FALSE,
     rows |-> << FileRow(<<"MIT">>, "", "Cambridge", "US", "", "", "heuristic", "", "", "") >>],
    [exists |-> TRUE, hasInstCol |-> TRUE,
     rows |-> << FileRow(<<"Stanford", "University">>, "Stanford University", "Stanford", "US",
                         "1.50", "2.5", "ror", "ror-id", "", "0.9"),
                 FileRow(<<"MIT">>, "", "", "", "", "", "", "", "", "0.0"),
                 FileRow(<<"Kyoto", "University">>, "Kyoto University", "Kyoto", "JP",
                         "abc", "", "ror", "ror-id", "", "0.9"),
                 FileRow(<<"ETH">>, "ETH Zurich", "", "CH", "", "", "openalex", "", "oa-id", "") >>],
    [exists |-> TRUE, hasInstCol |-> TRUE,
     rows |-> << FileRow(<<"RIKEN">>, "", "", "", "", "", " ", "", "", "0.0"),
                 FileRow(<<"Kyoto", "University">>, "", "", "", "", "", "", "", "", "0.0") >>] }

Inputs ==
  { << <<"Department", "of", "CS", ",", "Stanford", "University">> >>,
    << <<"Kyoto", "University", "and", "RIKEN">>, NotAString, <<"unknown">> >> }

\* values of --max (0: not given)
MaxChoices == 0..MaxLimit

NoRun == [valid |-> FALSE, refresh |-> FALSE, max |-> 0,
          pvalid |-> FALSE, prefresh |-> FALSE, pmax |-> 0, unique |-> <<>>,
          to_process |-> <<>>, cache |-> <<>>, queried |-> {},
          before |-> NoFile, after |-> NoFile]

NoArgs == [refresh |-> FALSE, max |-> 0]

\* what pd.read_csv finds at args.input
CsvStates == {"ok", "missing", "nocolumn"}

NoOutfile == [exists |-> FALSE, rows |-> <<>>]

NoHeur == [status |-> "none", ei |-> FALSE, splits |-> <<>>, split_uniques |-> <<>>,
           summary |-> "none"]

Init ==
  /\ disk \in InitialDisks
  /\ input \in Inputs
  /\ csv \in CsvStates
  /\ outfile = NoOutfile
  /\ heur = NoHeur
  /\ pc = "idle"
  /\ runs = 0
  /\ args = NoArgs
  /\ cache = <<>>
  /\ unique = <<>>
  /\ updated = <<>>
  /\ to_process = <<>>
  /\ idx = 1
  /\ enr = <<>>
  /\ resp = NoResp
  /\ log = <<>>
  /\ queried = {}
  /\ prev = NoRun
  /\ papers = NoPapers
  /\ backup = NoPapers
  /\ out = NoOut

\* ------------------------------------------------------------------------
\* main
\* ------------------------------------------------------------------------
\* (cache[u].source or '').strip() is empty
BlankSource(src) == src \in {"", " "}

\* a selection that retries cached misses without looking at the flag
Selected_IgnoresFlag(c, refresh, u) ==
  \/ ~DictHas(c, u)
  \/ BlankSource(DictGet(c, u).source)

\* a selection that, with the flag, retries every cached entry
Selected_RefreshAll(c, refresh, u) ==
  \/ ~DictHas(c, u)
  \/ refresh

\* u not in cache or (args.refresh_missing and not (cache[u].source or '').strip())
Selected(c, refresh, u) ==
  \/ ~DictHas(c, u)
  \/ refresh /\ BlankSource(DictGet(c, u).source)

\* main, from load_cache to the computation of to_process
StartRun ==
  /\ pc = "idle"
  /\ csv = "ok"
  /\ runs < MaxRuns
  /\ \E refresh \in BOOLEAN, max \in MaxChoices :
       LET c == load_cache(disk)
           u == read_unique_institutions(input, max)
           t == SelectSeq(u, LAMBDA n : Selected(c, refresh, n))
       IN /\ args' = [refresh |-> refresh, max |-> max]
          /\ cache' = c
          /\ unique' = u
          /\ updated' = c
          /\ to_process' = t
          /\ pc' = IF t = <<>> THEN "save" ELSE "ror_name"
  /\ idx' = 1
  /\ enr' = <<>>
  /\ resp' = NoResp
  /\ log' = <<>>
  /\ queried' = {}
  /\ UNCHANGED <<disk, input, runs, prev, csv, outfile, heur>>
  /\ UNCHANGED <<papers, backup, out>>

\* a main that writes the loaded cache back before it reads the input
AbortRun_SavesFirst ==
  /\ pc = "idle"
  /\ csv # "ok"
  /\ cache' = load_cache(disk)
  /\ disk' = save_cache(DictValues(load_cache(disk)), runs + 1)
  /\ pc' = "aborted"
  /\ UNCHANGED <<input, runs, args, unique, updated, to_process, idx, enr, resp, log,
                 queried, prev, csv, outfile, heur>>
  /\ UNCHANGED <<papers, backup, out>>

\* main: load_cache, then read_unique_institutions raises (pd.read_csv
\* fails, or SystemExit for the missing column) and the process ends
AbortRun ==
  /\ pc = "idle"
  /\ csv # "ok"
  /\ cache' = load_cache(disk)
  /\ pc' = "aborted"
  /\ UNCHANGED <<disk, input, runs, args, unique, updated, to_process, idx, enr, resp, log,
                 queried, prev, csv, outfile, heur>>
  /\ UNCHANGED <<papers, backup, out>>

name == to_process[idx]

\* core and core != name
\* a retry test that only asks for a non-empty core
RetryWithCore_AnyCore(n) == normalize_institution(n) # <<>>

RetryWithCore(n) == normalize_institution(n) # <<>> /\ normalize_institution(n) # n

\* enrich_institution: r = query_ror(name)
QueryRorName ==
  /\ pc = "ror_name"
  /\ \E a \in RorResponses :
       LET r == query_ror(name, a)
       IN /\ resp' = a
          /\ log' = Append(log, Event("ror", name, name, Got(a)))
          /\ IF RorAccepted(r)
             THEN enr' = r /\ pc' = "record"
             ELSE enr' = <<>> /\ pc' = "oa_name"
  /\ queried' = queried \cup {name}
  /\ UNCHANGED <<disk, input, runs, args, cache, unique, updated, to_process, idx, prev, csv, outfile, heur>>
  /\ UNCHANGED <<papers, backup, out>>

\* enrich_institution: r = query_openalex(name)
QueryOpenalexName ==
  /\ pc = "oa_name"
  /\ \E a \in OpenalexResponses :
       LET r == query_openalex(name, a)
       IN /\ resp' = a
          /\ log' = Append(log, Event("openalex", name, name, Got(a)))
          /\ IF r # <<>>
             THEN enr' = r /\ pc' = "record"
             ELSE /\ enr' = <<>>
                  /\ pc' = IF RetryWithCore(name) THEN "ror_core" ELSE "record"
  /\ queried' = queried \cup {name}
  /\ UNCHANGED <<disk, input, runs, args, cache, unique, updated, to_process, idx, prev, csv, outfile, heur>>
  /\ UNCHANGED <<papers, backup, out>>

\* enrich_institution: r = query_ror(core)
QueryRorCore ==
  /\ pc = "ror_core"
  /\ \E a \in RorResponses :
       LET r == query_ror(normalize_institution(name), a)
       IN /\ resp' = a
          /\ log' = Append(log, Event("ror", normalize_institution(name), name, Got(a)))
          /\ IF RorAccepted(r)
             THEN enr' = r /\ pc' = "record"
             ELSE enr' = <<>> /\ pc' = "oa_core"
  /\ queried' = queried \cup {name}
  /\ UNCHANGED <<disk, input, runs, args, cache, unique, updated, to_process, idx, prev, csv, outfile, heur>>
  /\ UNCHANGED <<papers, backup, out>>

\* enrich_institution: r = query_openalex(core)
QueryOpenalexCore ==
  /\ pc = "oa_core"
  /\ \E a \in OpenalexResponses :
       LET r == query_openalex(normalize_institution(name), a)
       IN /\ resp' = a
          /\ log' = Append(log, Event("openalex", normalize_institution(name), name, Got(a)))
          /\ enr' = r
          /\ pc' = "record"
  /\ queried' = queried \cup {name}
  /\ UNCHANGED <<disk, input, runs, args, cache, unique, updated, to_process, idx, prev, csv, outfile, heur>>
  /\ UNCHANGED <<papers, backup, out>>

\* a loop body that writes the cache file after every candidate
Record_Checkpoint ==
  /\ pc = "record"
  /\ updated' = DictSet(updated, name, IF enr # <<>> THEN enr[1] ELSE Placeholder(name))
  /\ disk' = save_cache(DictValues(updated'), runs + 1)
  /\ log' = <<>>
  /\ idx' = idx + 1
  /\ pc' = IF idx + 1 > Len(to_process) THEN "save" ELSE "ror_name"
  /\ enr' = <<>>
  /\ resp' = NoResp
  /\ UNCHANGED <<input, runs, args, cache, unique, to_process, queried, prev, csv, outfile, heur>>
  /\ UNCHANGED <<papers, backup, out>>

\* main: the rest of the loop body: store the result or a placeholder, sleep
Record ==
  /\ pc = "record"
  /\ updated' = DictSet(updated, name, IF enr # <<>> THEN enr[1] ELSE Placeholder(name))
  /\ log' = <<>>
  /\ idx' = idx + 1
  /\ pc' = IF idx + 1 > Len(to_process) THEN "save" ELSE "ror_name"
  /\ enr' = <<>>
  /\ resp' = NoResp
  /\ UNCHANGED <<disk, input, runs, args, cache, unique, to_process, queried, prev, csv, outfile, heur>>
  /\ UNCHANGED <<papers, backup, out>>

\* main: save_cache(args.out, updated.values()), and the process ends
Save ==
  /\ pc = "save"
  /\ disk' = save_cache(DictValues(updated), runs + 1)
  /\ prev' = [valid |-> TRUE, refresh |-> args.refresh, max |-> args.max,
              pvalid |-> prev.valid, prefresh |-> prev.refresh, pmax |-> prev.max,
              unique |-> unique, to_process |-> to_process, cache |-> cache,
              queried |-> queried, before |-> disk, after |-> disk']
  /\ runs' = runs + 1
  /\ pc' = "idle"
  /\ args' = NoArgs
  /\ cache' = <<>>
  /\ unique' = <<>>
  /\ updated' = <<>>
  /\ to_process' = <<>>
  /\ idx' = 1
  /\ enr' = <<>>
  /\ resp' = NoResp
  /\ log' = <<>>
  /\ queried' = {}
  /\ UNCHANGED <<input, csv, outfile, heur>>
  /\ UNCHANGED <<papers, backup, out>>

\* affiliation fields for the heuristic variant
HValues ==
  { <<"MIT">>, <<"mit">>, <<"MIT2">>, <<"USI">>, <<"Harvard">>, <<"RIKEN">>,
    <<"Germany">>, <<"Japan">>, <<"United", "States">>, <<"South", "Korea">>,
    <<"University", "of", "Oxford">>, <<"University", "of", "Oxford2">>,
    <<"Stanford", "University">>,
    <<"Department", "of", "CS", ",", "Stanford", "University">>,
    <<"Kyoto", "University", "and", "RIKEN">>,
    <<"Bell", "Laboratory", "and", "Stanford", "University">>,
    <<"University", "of", "Duisburg-Essen">>,
    <<"Science", "and", "Engineering">>,
    <<"unknown">>, <<"7">>, <<"X">>,
    <<"MIT", ";", "RIKEN", ";", "MIT">>,
    <<" ", "MIT", " ">>, <<" ">>, <<>>, NotAString }

\* the extraction loop over split_uniques
RECURSIVE ExtractAll(_, _)
ExtractAll(cands, ei) ==
  IF cands = <<>> THEN <<>>
  ELSE HeuristicRows(Head(cands), ei) \o ExtractAll(Tail(cands), ei)

\* main of the heuristic variant, from the import to the written file; the
\* two scripts are run one after the other, never at the same time
HeuristicRun ==
  /\ pc = "idle"
  /\ csv = "ok"
  /\ \E ei \in BOOLEAN :
       LET su == split_uniques(input, ei)
       IN /\ outfile' = [exists |-> TRUE, rows |-> ExtractAll(su, ei)]
          /\ heur' = [status |-> "written", ei |-> ei,
                      splits |-> [i \in 1..Len(input) |->
                                    IF input[i] = NotAString THEN <<>>
                                    ELSE _split_simple(input[i], ei)],
                      split_uniques |-> su,
                      summary |-> IF Len(su) = 0 THEN "ZeroDivisionError" ELSE "printed"]
  /\ UNCHANGED <<disk, input, pc, runs, args, cache, unique, updated, to_process, idx,
                 enr, resp, log, queried, prev, csv>>
  /\ UNCHANGED <<papers, backup, out>>

\* main of the heuristic variant: pd.read_csv raises (no file, or usecols
\* names a column the file does not have) and the process ends
HeuristicAbort ==
  /\ pc \in {"idle", "aborted"}
  /\ csv # "ok"
  /\ \E ei \in BOOLEAN : heur' = [status |-> "aborted", ei |-> ei, splits |-> <<>>,
                                   split_uniques |-> <<>>, summary |-> "none"]
  /\ UNCHANGED <<disk, input, pc, runs, args, cache, unique, updated, to_process, idx,
                 enr, resp, log, queried, prev, csv, outfile>>
  /\ UNCHANGED <<papers, backup, out>>

\* GET /search
Search ==
  /\ \E q \in Queries :
       \E filtered_df \in {Filtered(papers.rows, q)} :
          out' = IF papers.rows = <<>>
                 THEN [op |-> "search", query |-> q, status |-> "error", rows |-> <<>>,
                       total |-> 0]
                 ELSE [op |-> "search", query |-> q, status |-> "ok",
                       rows |-> OutRows(SubSeq(filtered_df, 1,
                                  IF Len(filtered_df) > max_results THEN max_results
                                  ELSE Len(filtered_df))),
                       total |-> Len(filtered_df)]
  /\ UNCHANGED <<papers, backup>>
  /\ UNCHANGED vars0

\* GET /export_csv
ExportCsv ==
  /\ \E q \in Queries :
       \E filtered_df \in {Filtered(papers.rows, q)} :
          out' = IF papers.rows = <<>> \/ filtered_df = <<>>
                 THEN [op |-> "export_csv", query |-> q, status |-> "error", rows |-> <<>>,
                       total |-> 0]
                 ELSE [op |-> "export_csv", query |-> q, status |-> "ok",
                       rows |-> OutRows(filtered_df), total |-> Len(filtered_df)]
  /\ UNCHANGED <<papers, backup>>
  /\ UNCHANGED vars0

\* test_japan.py: the papers it reports for selected_countries = ['Japan']
TestJapan ==
  /\ papers.exists
  /\ LET filtered == SelectSeq(papers.rows,
                       LAMBDA p : test_japan_has_selected_country(p.Author_Countries,
                                                                  << <<"Japan">> >>))
     IN out' = [op |-> "test_japan", query |-> NoQuery, status |-> "ok",
                rows |-> OutRows(filtered), total |-> Len(filtered)]
  /\ UNCHANGED <<papers, backup>>
  /\ UNCHANGED vars0

\* test_json.py: the papers it finds, of which it converts the first five
TestJson ==
  /\ papers.exists
  /\ LET filtered_df == SelectSeq(papers.rows,
                          LAMBDA p : test_json_has_selected_country(p.Author_Countries,
                                                                    << <<"Japan">> >>))
     IN out' = [op |-> "test_json", query |-> NoQuery, status |-> "ok",
                rows |-> OutRows(SubSeq(filtered_df, 1,
                           IF Len(filtered_df) > 5 THEN 5 ELSE Len(filtered_df))),
                total |-> Len(filtered_df)]
  /\ UNCHANGED <<papers, backup>>
  /\ UNCHANGED vars0

\* main of convert_country_separators.py: the column is converted in
\* memory, then the frame is written to the backup file and to the data file
ConvertSeparators ==
  /\ IF ~papers.exists
     THEN /\ out' = [op |-> "convert", query |-> NoQuery, status |-> "error",
                     rows |-> <<>>, total |-> 0]
          /\ UNCHANGED <<papers, backup>>
     ELSE LET df == Converted(papers.rows)
          IN /\ backup' = [exists |-> TRUE, rows |-> df]
             /\ papers' = [exists |-> TRUE, rows |-> df]
             /\ out' = [op |-> "convert", query |-> NoQuery, status |-> "ok",
                        rows |-> <<>>,
                        total |-> Cardinality({i \in 1..Len(papers.rows) :
                                   /\ papers.rows[i].Author_Countries # NaN
                                   /\ \E j \in 1..Len(papers.rows[i].Author_Countries) :
                                        papers.rows[i].Author_Countries[j] = ";"})]
  /\ UNCHANGED vars0

Next ==
  \/ StartRun
  \/ AbortRun
  \/ QueryRorName
  \/ QueryOpenalexName
  \/ QueryRorCore
  \/ QueryOpenalexCore
  \/ Record
  \/ Save
  \/ HeuristicRun
  \/ HeuristicAbort

Spec == Init /\ [][Next]_vars

\* ------------------------------------------------------------------------
\* The heuristic variant alone, on a larger set of affiliation fields
\* ------------------------------------------------------------------------
\* number of rows of the input CSV
\* main started again and again with the same --max
StartRunSameMax == StartRun /\ args'.max = MaxLimit

InitL == Init /\ csv = "ok"

NextL ==
  \/ StartRunSameMax
  \/ QueryRorName
  \/ QueryOpenalexName
  \/ QueryRorCore
  \/ QueryOpenalexCore
  \/ Record
  \/ Save

\* every started run runs to its end, and runs are repeated
SpecL == InitL /\ [][NextL]_vars /\ WF_vars(NextL)

\* the online variant on affiliations with several comma-separated segments
NInputs ==
  { << <<"Bell", "Laboratory", ",", "Cambridge">> >>,
    << <<"RIKEN", ",", "Kyoto", "University">> >>,
    << <<"Centre", ",", "Research", "Center">> >> }

InitN ==
  /\ disk = NoFile
  /\ input \in NInputs
  /\ csv \in CsvStates
  /\ outfile = NoOutfile
  /\ heur = NoHeur
  /\ pc = "idle"
  /\ runs = 0
  /\ args = NoArgs
  /\ cache = <<>>
  /\ unique = <<>>
  /\ updated = <<>>
  /\ to_process = <<>>
  /\ idx = 1
  /\ enr = <<>>
  /\ resp = NoResp
  /\ log = <<>>
  /\ queried = {}
  /\ prev = NoRun
  /\ papers = NoPapers
  /\ backup = NoPapers
  /\ out = NoOut

SpecN == InitN /\ [][Next]_vars

MaxRows == 1

HInputs == UNION {[1..n -> HValues] : n \in 1..MaxRows}

InitH ==
  /\ disk = NoFile
  /\ input \in HInputs
  /\ csv \in CsvStates
  /\ outfile = NoOutfile
  /\ heur = NoHeur
  /\ pc = "idle"
  /\ runs = 0
  /\ args = NoArgs
  /\ cache = <<>>
  /\ unique = <<>>
  /\ updated = <<>>
  /\ to_process = <<>>
  /\ idx = 1
  /\ enr = <<>>
  /\ resp = NoResp
  /\ log = <<>>
  /\ queried = {}
  /\ prev = NoRun
  /\ papers = NoPapers
  /\ backup = NoPapers
  /\ out = NoOut

NextH ==
  \/ HeuristicRun
  \/ HeuristicAbort

SpecH == InitH /\ [][NextH]_vars

InitW ==
  /\ disk = NoFile
  /\ input = <<>>
  /\ csv = "ok"
  /\ outfile = NoOutfile
  /\ heur = NoHeur
  /\ pc = "idle"
  /\ runs = 0
  /\ args = NoArgs
  /\ cache = <<>>
  /\ unique = <<>>
  /\ updated = <<>>
  /\ to_process = <<>>
  /\ idx = 1
  /\ enr = <<>>
  /\ resp = NoResp
  /\ log = <<>>
  /\ queried = {}
  /\ prev = NoRun
  /\ papers \in Frames
  /\ backup = NoPapers
  /\ out = NoOut

NextW ==
  \/ Search
  \/ ExportCsv
  \/ TestJapan
  \/ TestJson
  \/ ConvertSeparators

SpecW == InitW /\ [][NextW]_vars

\* ------------------------------------------------------------------------
\* Properties
\* ------------------------------------------------------------------------
Range(f) == {f[i] : i \in DOMAIN f}

InRun == pc # "idle"
InLookup == pc \in {"ror_name", "oa_name", "ror_core", "oa_core", "record"}

RowsOf(file, inst) == {i \in 1..Len(file.rows) : file.rows[i].institution = inst}

\* a file row without its updated_at column
NoTime(row) ==
  [institution |-> row.institution, matched_name |-> row.matched_name, city |-> row.city,
   country_code |-> row.country_code, latitude |-> row.latitude,
   longitude |-> row.longitude, source |-> row.source, ror_id |-> row.ror_id,
   openalex_id |-> row.openalex_id, score |-> row.score]

Tuple4(e) == <<e.institution, e.city, e.country_code, e.source>>

\* C1: after a run, the written file holds exactly one row for every candidate
\* considered in that run, no two rows share an institution value, and the
\* entry stored under key c carries institution = c.
C1_OneRowPerCandidate ==
  /\ \A i \in 1..Len(updated) : updated[i].v.institution = updated[i].k
  /\ prev.valid =>
       /\ \A c \in Range(prev.unique) : Cardinality(RowsOf(prev.after, c)) = 1
       /\ \A i, j \in 1..Len(prev.after.rows) :
            prev.after.rows[i].institution = prev.after.rows[j].institution => i = j

\* C2: a candidate processed (resolved or missed) by a run that saved the
\* cache is not looked up by a later run without --refresh-missing.
C2_SkipAlreadySeen ==
  (prev.valid /\ InRun /\ ~args.refresh) => prev.queried \cap queried = {}

\* C3: a candidate cached with source "" is queried iff the run was started
\* with --refresh-missing; a candidate absent from the cache is always queried.
C3_RefreshMissing ==
  pc = "save" =>
    \A c \in Range(unique) :
      /\ (DictHas(cache, c) /\ DictGet(cache, c).source = "") => (c \in queried <=> args.refresh)
      /\ ~DictHas(cache, c) => c \in queried

C3_Witness ==
  /\ pc = "save" /\ args.refresh /\ prev.valid /\ ~prev.refresh
  /\ \E c \in Range(unique) \cap Range(prev.unique) :
       /\ DictHas(cache, c) /\ DictGet(cache, c).source = "" /\ c \in queried
       /\ DictHas(prev.cache, c) /\ DictGet(prev.cache, c).source = "" /\ c \notin prev.queried

\* C4 (as stated): every cache entry loaded with a non-empty source is never
\* looked up and is written back with the same fields, whatever the flags.
C4_NonEmptySourceKept ==
  prev.valid =>
    \A i \in 1..Len(prev.cache) :
      prev.cache[i].v.source # "" =>
        /\ prev.cache[i].k \notin prev.queried
        /\ i <= Len(prev.after.rows)
        /\ RowEntry(prev.after.rows[i]) = prev.cache[i].v

\* C4 (amended): every cache entry loaded with a source that is not blank
\* (non-empty after stripping whitespace) is never looked up and is written
\* back with the same fields, whatever the flags.
C4_NonBlankSourceKept ==
  prev.valid =>
    \A i \in 1..Len(prev.cache) :
      ~BlankSource(prev.cache[i].v.source) =>
        /\ prev.cache[i].k \notin prev.queried
        /\ i <= Len(prev.after.rows)
        /\ RowEntry(prev.after.rows[i]) = prev.cache[i].v

C4_Witness ==
  /\ prev.valid /\ prev.refresh /\ prev.queried # {}
  /\ \E i \in 1..Len(prev.cache) :
       /\ prev.cache[i].v.source = "ror"
       /\ prev.cache[i].k \notin prev.queried
       /\ RowEntry(prev.after.rows[i]) = prev.cache[i].v

\* C5: the cache is never compacted: every institution value that is a row of
\* the file before a run is still a row of the file after that run.
C5_NeverCompacted ==
  (prev.valid /\ prev.before.exists /\ prev.before.hasInstCol) =>
    \A i \in 1..Len(prev.before.rows) :
      RowsOf(prev.after, prev.before.rows[i].institution) # {}

\* C6: a second run on unchanged input and cache, with the same --max and no
\* refresh flag, writes the rows it found (updated_at aside), in the same
\* order, and performs no external lookup.
C6_Idempotent ==
  (prev.valid /\ prev.pvalid /\ ~prev.refresh /\ ~prev.prefresh /\ prev.max = prev.pmax) =>
    /\ prev.queried = {}
    /\ [i \in 1..Len(prev.after.rows) |-> NoTime(prev.after.rows[i])]
         = [i \in 1..Len(prev.before.rows) |-> NoTime(prev.before.rows[i])]

\* C7: load_cache on a file written by save_cache returns, for every written
\* row, an entry with the same (institution, city, country_code, source)
\* under the key equal to that institution.
C7_RoundTrip ==
  prev.valid =>
    \A i \in 1..Len(prev.after.rows) :
      /\ DictHas(load_cache(prev.after), prev.after.rows[i].institution)
      /\ Tuple4(DictGet(load_cache(prev.after), prev.after.rows[i].institution))
           = Tuple4(prev.after.rows[i])

\* rows of the file whose try block does not raise
WellFormed(file) == {i \in 1..Len(file.rows) : ~RowRaises(file, file.rows[i])}

\* C8: load_cache skips exactly the rows that raise (no institution column,
\* non-numeric latitude, longitude or score) and loads every other row: the
\* loaded keys are the institutions of the well-formed rows, each with the
\* fields of its last well-formed row.
C8_LoadSkipsOnlyMalformed ==
  InRun =>
    /\ DictKeys(cache) = {disk.rows[i].institution : i \in WellFormed(disk)}
    /\ \A i \in WellFormed(disk) :
         (\A j \in WellFormed(disk) :
            disk.rows[j].institution = disk.rows[i].institution => j <= i)
         => DictGet(cache, disk.rows[i].institution) = RowEntry(disk.rows[i])

C8_Witness ==
  /\ InRun
  /\ \E i, j \in 1..Len(disk.rows) :
       /\ i < j
       /\ RowRaises(disk, disk.rows[i])
       /\ ~RowRaises(disk, disk.rows[j])
       /\ DictHas(cache, disk.rows[j].institution)
       /\ ~DictHas(cache, disk.rows[i].institution)

Last(q) == q[Len(q)]
AllFailed(q) == \A i \in 1..Len(q) : q[i].got = "none"

\* C9: a failed request (network error, non-200 status, unparseable or empty
\* answer) yields no result and the next stage is tried; when every stage
\* failed the candidate is stored with empty source; when the loop is over
\* every candidate selected for processing has an entry in the result set.
C9_FailureState ==
  /\ (InLookup /\ resp.kind \in Failures) =>
       /\ enr = <<>>
       /\ Last(log).got = "none"
       /\ (Last(log).dir = "ror" /\ Len(log) = 1) => pc = "oa_name"
       /\ (Last(log).dir = "openalex" /\ Len(log) = 2) =>
            pc = (IF RetryWithCore(name) THEN "ror_core" ELSE "record")
       /\ (Last(log).dir = "ror" /\ Len(log) = 3) => pc = "oa_core"
       /\ (Last(log).dir = "openalex" /\ Len(log) = 4) => pc = "record"
  /\ pc = "save" => \A c \in Range(to_process) : DictHas(updated, c)

C9_MissRecorded ==
  (pc = "record" /\ pc' # "record") =>
     /\ DictHas(updated', name)
     /\ AllFailed(log) => DictGet(updated', name) = Placeholder(name)

C9_FailuresAreMisses == [](C9_FailureState) /\ [][C9_MissRecorded]_vars

C9_Witness ==
  /\ pc = "record" /\ idx = 2 /\ AllFailed(log) /\ resp.kind = "error"
  /\ DictGet(updated, to_process[1]) = Placeholder(to_process[1])

\* C10: the requests for one candidate are issued in the order primary(name),
\* secondary(name), primary(core), secondary(core) and stop at the first
\* accepted result; a primary result is accepted only with a city or with
\* both coordinates; the core retries need a non-empty core that differs
\* from the name.
RorGood(e) == e.got \in {"city", "coords"}
OpenalexGood(e) == e.got # "none"
Good(e) == IF e.dir = "ror" THEN RorGood(e) ELSE OpenalexGood(e)

C10_LookupOrder ==
  InLookup =>
    /\ Len(log) <= 4
    /\ \A i \in 1..Len(log) :
         /\ log[i].cand = name
         /\ log[i].dir = (IF i \in {1, 3} THEN "ror" ELSE "openalex")
         /\ log[i].q = (IF i <= 2 THEN name ELSE normalize_institution(name))
         /\ i < Len(log) => ~Good(log[i])
    /\ Len(log) >= 3 => (normalize_institution(name) # <<>> /\ normalize_institution(name) # name)
    /\ (log # <<>> /\ Good(Last(log))) => (pc = "record" /\ enr # <<>>)
    /\ (pc = "record" /\ enr # <<>>) => (Good(Last(log)) /\ enr[1].source = Last(log).dir)
    /\ (pc = "record" /\ enr = <<>>) =>
         Len(log) = (IF RetryWithCore(name) THEN 4 ELSE 2)
    /\ pc = "ror_name" => log = <<>>
    /\ pc = "oa_name" => Len(log) = 1
    /\ pc = "ror_core" => Len(log) = 2
    /\ pc = "oa_core" => Len(log) = 3

C10_Witness ==
  /\ pc = "record" /\ Len(log) = 4 /\ enr # <<>>
  /\ log[1].got = "partial" /\ log[3].got = "partial"

\* C11: between any two consecutive external requests of a run the delay
\* elapses: no request follows another without a sleep in between (log holds
\* the requests issued since the last sleep).
C11_SleepBetweenRequests == Len(log) <= 1

\* C12 (as stated): a candidate causes at least one and at most two network
\* calls before the sleep that precedes the next candidate.
C12_OneOrTwoCalls == pc = "record" => (Len(log) >= 1 /\ Len(log) <= 2)

\* C12 (amended): a candidate causes at least one and at most four network
\* calls before the sleep, and at most two when the Normalizer's core is
\* empty or equal to the name.
C12_OneToFourCalls ==
  pc = "record" =>
    /\ Len(log) >= 1
    /\ Len(log) <= 4
    /\ (normalize_institution(name) = <<>> \/ normalize_institution(name) = name)
         => Len(log) <= 2

C12_Witness ==
  /\ pc = "record" /\ Len(log) = 4
  /\ log[3].q = normalize_institution(name) /\ log[3].q # name

\* C13: when the input CSV is missing, unreadable or lacks the
\* Author_Institutions column, a run of either variant aborts before any
\* processing: no candidate is selected, no external request is issued, and
\* neither the cache file nor the heuristic output file is written or changed.
C13_AbortState ==
  csv # "ok" =>
    /\ pc \in {"idle", "aborted"}
    /\ log = <<>> /\ queried = {} /\ to_process = <<>> /\ updated = <<>>
    /\ outfile = NoOutfile
    /\ heur.status \in {"none", "aborted"}

C13_AbortStep == csv # "ok" => (disk' = disk /\ outfile' = outfile)

C13_AbortBeforeProcessing == [](C13_AbortState) /\ [][C13_AbortStep]_vars

C13_Witness ==
  /\ csv # "ok" /\ pc = "aborted" /\ heur.status = "aborted"
  /\ disk.exists /\ cache # <<>>

\* a field without ";" or "|"
NoDelimiter(v) == \A i \in 1..Len(v) : v[i] \notin {";", "|"}

\* the field holds an "and" that splits it (both sides name an organisation)
ConfirmedAnd(v) == SplitSubparts(Strip(v)) # <<Strip(v)>>

\* the string fields of the input without delimiter and confirmed "and"
PlainRows ==
  {i \in 1..Len(input) :
     input[i] # NotAString /\ NoDelimiter(input[i]) /\ ~ConfirmedAnd(input[i])}

\* C14 (as stated): for every raw affiliation string without semicolon/pipe
\* and without keyword-confirmed "and", the Splitter returns exactly one
\* candidate, the input with leading and trailing whitespace removed.
C14_OneTrimmedCandidate ==
  heur.status = "written" =>
    \A i \in PlainRows : heur.splits[i] = <<Strip(input[i])>>

\* C14 (amended): such a string yields exactly one candidate, the trimmed
\* input, unless the trimmed input is empty or, with the shared splitter,
\* is one of the noise tokens unknown, n/a, na, none in any letter case;
\* then the Splitter returns the empty list.
C14_OneTrimmedOrNone ==
  heur.status = "written" =>
    \A i \in PlainRows :
      heur.splits[i] =
        IF \/ Strip(input[i]) = <<>>
           \/ heur.ei /\ Len(Strip(input[i])) = 1 /\ Lower(Strip(input[i])[1]) \in NoiseTokens
        THEN <<>>
        ELSE <<Strip(input[i])>>

C14_Witness ==
  /\ heur.status = "written" /\ heur.ei
  /\ input = << <<" ", "MIT", " ">> >>
  /\ heur.splits = << << <<"MIT">> >> >>

NoRepeat(l) == \A i, j \in 1..Len(l) : l[i] = l[j] => i = j

\* C15: for every raw affiliation field the Splitter returns a list with no
\* repeated candidate, in order of first occurrence; an empty, blank or
\* non-string field yields the empty list.
C15_SplitterDeduplicates ==
  heur.status = "written" =>
    \A i \in 1..Len(input) :
      /\ NoRepeat(heur.splits[i])
      /\ (input[i] = NotAString \/ Strip(input[i]) = <<>>) => heur.splits[i] = <<>>

\* a candidate that is "unknown", "n/a" or "none" in any letter case, a
\* pure-digit string or a single character
NoiseCandidate(c) ==
  \/ Len(c) = 1 /\ Lower(c[1]) \in {"unknown", "n/a", "none"}
  \/ c # <<>> /\ \A i \in 1..Len(Render(c)) : Render(c)[i] \in Digits
  \/ Len(Render(c)) = 1

\* C16: no noise candidate reaches a Resolver: with the shared splitter and
\* with the fallback splitter, the Splitter returns no noise candidate and
\* no row is written for one.
C16_NoNoiseCandidate ==
  heur.status = "written" =>
    /\ \A i \in 1..Len(heur.splits) : \A j \in 1..Len(heur.splits[i]) :
         ~NoiseCandidate(heur.splits[i][j])
    /\ \A k \in 1..Len(outfile.rows) : ~NoiseCandidate(outfile.rows[k].institution_raw)

\* C17: for every candidate equal to an alias-table key (exactly, or after
\* diacritic/punctuation normalization) the heuristic pipeline's (city,
\* country_code) is the alias table's value for that key, whatever city
\* extraction and the country-hint scan find in the same string.
C17_AliasValueWins ==
  heur.status = "written" =>
    \A k \in 1..Len(outfile.rows) :
      LET r == outfile.rows[k]
          n == norm_key(Render(r.institution_raw))
      IN DictHas(alias_norm, n) =>
           <<r.city_guess, r.country_hint>> = DictGet(alias_norm, n)

\* C18: for every candidate equal (after normalization) to a recognized
\* country name that has a capital and is not in the alias table, one-word
\* or multi-word, the heuristic pipeline returns the capital as city and
\* the country's code as country_code.
C18_CountryGivesCapital ==
  heur.status = "written" =>
    \A k \in 1..Len(outfile.rows) :
      LET r    == outfile.rows[k]
          code == country_code_for(Render(r.institution_raw))
      IN (/\ code # "" /\ CAPITALS(code) # <<>>
          /\ ~DictHas(alias_norm, norm_key(Render(r.institution_raw))))
         => <<r.city_guess, r.country_hint>> = <<CAPITALS(code), code>>

\* the word without its trailing footnote marker
Unmarked(w) ==
  CASE w = "Oxford2" -> "Oxford"
    [] w = "MIT2"    -> "MIT"
    [] OTHER         -> w

\* the candidate without the footnote marker at its end
WithoutFootnote(c) ==
  IF c = <<>> THEN c ELSE [i \in 1..Len(c) |-> IF i = Len(c) THEN Unmarked(c[i]) ELSE c[i]]

\* C19: footnote stripping precedes all matching: a candidate followed by a
\* trailing footnote marker gets the same (city, country_code) as the
\* candidate alone, in the alias stages and in city extraction alike.
C19_FootnoteInsensitive ==
  heur.status = "written" =>
    \A k \in 1..Len(outfile.rows) :
      LET r    == outfile.rows[k]
          base == WithoutFootnote(r.institution_raw)
      IN (base # r.institution_raw /\ Render(base) = strip_footnotes(Render(r.institution_raw)))
         => /\ HeuristicRows(base, heur.ei) # <<>>
            /\ <<r.city_guess, r.country_hint>> =
                 <<HeuristicRows(base, heur.ei)[1].city_guess,
                   HeuristicRows(base, heur.ei)[1].country_hint>>

\* C20: in every written file the source of a row names the stage that
\* produced it, and a candidate for which no stage produced a result (no
\* alias, no capital, no city pattern, no country) has empty source and
\* empty city: no row has a non-empty source with no stage having matched.
C20_SourceNamesStage ==
  heur.status = "written" =>
    \A k \in 1..Len(outfile.rows) :
      (outfile.rows[k].city_guess = <<>> /\ outfile.rows[k].country_hint = "")
        => outfile.rows[k].source = ""

\* C21: in a run of the online variant the cache file is read once, before
\* any lookup, and written once, after the last lookup: between the load
\* and the save the file on disk is the file that was loaded, the loaded
\* cache is not read again, and the only step that changes the file is the
\* save that ends the run.
C21_DiskAsLoaded ==
  pc \in {"ror_name", "oa_name", "ror_core", "oa_core", "record", "save"} =>
    /\ cache = load_cache(disk)
    /\ (pc # "save" => idx <= Len(to_process))
    /\ (pc = "save" => idx > Len(to_process) \/ to_process = <<>>)

C21_WriteStep ==
  /\ disk' # disk => (pc = "save" /\ pc' = "idle" /\ log = <<>>)
  /\ (pc # "idle" /\ pc' \notin {"idle", "aborted"}) => cache' = cache
  /\ (pc = "save" /\ pc' = "idle") => disk' = save_cache(DictValues(updated), runs')

C21_ReadOnceWriteOnce == [](C21_DiskAsLoaded) /\ [][C21_WriteStep]_vars

C21_Witness ==
  /\ pc = "save" /\ queried # {} /\ disk.exists
  /\ load_cache(disk) # <<>> /\ updated # cache

\* the organization keywords of the claim, lower-cased
KeywordsC22 ==
  {"university", "institute", "research", "college", "laboratory", "center", "centre",
   "cnrs", "inrae", "riken"}

\* the sides of a segment cut at each " and "
AndSides(p) == NonEmpty(StripAll(SplitAt(p, AndCuts(p, 1, FALSE), 1, <<>>)))

\* C22: a delimiter-free segment is split at the word "and" if and only if
\* the split yields at least two sides and every side contains an
\* organization keyword, where university, institute, research, college,
\* laboratory, center and centre each count as a keyword.
C22_AndSplitIffKeywords ==
  (heur.status = "written" /\ heur.ei) =>
    \A i \in 1..Len(input) :
      (input[i] # NotAString /\ NoDelimiter(input[i]) /\ Strip(input[i]) # <<>>) =>
        LET sides == AndSides(Strip(input[i]))
        IN (/\ Len(sides) >= 2
            /\ \A j \in 1..Len(sides) :
                 \E m \in 1..Len(sides[j]) : Lower(sides[j][m]) \in KeywordsC22)
           <=> (Len(heur.splits[i]) >= 2 /\ heur.splits[i] = sides)

\* a segment contains an organization keyword of the specification
HasKeyword(p) == \E i \in 1..Len(p) : Lower(p[i]) \in KeywordsC22

\* the segments the Normalizer chooses among
Segments(n) ==
  LET s == StripLeadingUnits(n)
  IN NonEmpty(SplitAt(s, JoinerCuts(s, 1, FALSE), 1, <<>>))

Priority(p) ==
  IF \E i \in 1..Len(p) : Lower(p[i]) = "university" THEN 0
  ELSE IF \E i \in 1..Len(p) : Lower(p[i]) = "institute" THEN 1
  ELSE IF \E i \in 1..Len(p) :
            Lower(p[i]) \in {"research", "laboratory", "center", "centre"} THEN 2
  ELSE 3

Before(p, q) ==
  \/ Priority(p) < Priority(q)
  \/ Priority(p) = Priority(q) /\ StrLen(p) > StrLen(q)

\* C23: whenever a candidate has a segment with an organization keyword
\* (Laboratory included), the core name the retry queries is a
\* keyword-containing segment that no other such segment precedes under
\* (priority, longer first).
C23_CoreIsBestSegment ==
  \A k \in 1..Len(log) :
    log[k].q # log[k].cand =>
      LET kw == SelectSeq(Segments(log[k].cand), HasKeyword)
      IN kw # <<>> =>
           /\ log[k].q \in Range(kw)
           /\ \A p \in Range(kw) : ~Before(p, log[k].q)

\* the written form ends in a capitalised hyphenated word that follows
\* "of", "at", "di" or "de", and holds no comma and no dash separator
EndsInHyphenated(r) ==
  LET words == SplitRuns(r, {" "}, <<>>)
      n     == Len(words)
  IN /\ n >= 2
     /\ \A i \in 1..Len(r) : r[i] \notin {",", "<endash>", "<emdash>"}
     /\ words[n - 1] \in {Chars("of"), Chars("at"), Chars("di"), Chars("de")}
     /\ CAP(words[n])
     /\ \E i \in 1..Len(words[n]) : words[n][i] = "-"

\* C24: for a raw string that ends in a capitalised hyphenated phrase after
\* "of"/"at"/"di"/"de", the city guess (which is the value of extract_city,
\* no alias naming such a string) is the last hyphen-separated segment only,
\* never the whole hyphenated phrase.
C24_LastHyphenSegment ==
  heur.status = "written" =>
    \A k \in 1..Len(outfile.rows) :
      LET r == Render(outfile.rows[k].institution_raw)
      IN EndsInHyphenated(r) =>
           /\ \A i \in 1..Len(outfile.rows[k].city_guess) : outfile.rows[k].city_guess[i] # "-"
           /\ outfile.rows[k].city_guess = AfterLastHyphen(r)

\* C25: a heuristic run whose input yields no candidate at all writes a
\* header-only output file and ends normally, without raising.
C25_NoCandidatesNoError ==
  (heur.status = "written" /\ heur.split_uniques = <<>>) =>
    /\ outfile = [exists |-> TRUE, rows |-> <<>>]
    /\ heur.summary = "printed"

\* the entries the loop has stored so far in the current run
Stored == {DictGet(updated, to_process[i]) : i \in 1..(idx - 1)}

\* C27: every entry a lookup created in the current run has source "ror"
\* (then a city or both coordinates, and no openalex_id), "openalex" (then
\* score 0.0 and no ror_id) or "" (then no city, country_code, matched_name
\* or coordinates, and score 0.0).
C27_EntryShapeBySource ==
  InRun =>
    \A e \in Stored :
      /\ e.source \in {"ror", "openalex", ""}
      /\ e.source = "ror" =>
           /\ e.city # "" \/ (e.latitude # NoneVal /\ e.longitude # NoneVal)
           /\ e.openalex_id = ""
      /\ e.source = "openalex" => (e.score = "f0.0" /\ e.ror_id = "")
      /\ e.source = "" =>
           /\ e.city = "" /\ e.country_code = "" /\ e.matched_name = ""
           /\ e.latitude = NoneVal /\ e.longitude = NoneVal /\ e.score = "f0.0"

C27_Witness ==
  /\ pc = "save"
  /\ \E e \in Stored : e.source = "ror" /\ e.city = "" /\ e.latitude # NoneVal
  /\ \E e \in Stored : e.source \in {"openalex", ""}

\* the institutions of the input
InputInstitutions == Range(AllCandidates(input))

\* a run starts
Starts == pc = "idle" /\ pc' \notin {"idle", "aborted"}

\* a run with --max considers at most that many unique institutions
C28_AtMostMax == (InRun /\ args.max # 0) => Len(unique) <= args.max

\* a run that starts while an institution of the input is absent from the
\* cache queries at least one uncached institution
C28_RunQueriesUncached ==
  (Starts /\ \E n \in InputInstitutions : ~DictHas(cache', n)) =>
    \E i \in 1..Len(to_process') : ~DictHas(cache', to_process'[i])

\* C28: with --max N a run considers at most N unique institutions, and
\* repeated runs with the same N over an unchanged input make progress: a run
\* that starts while some institution of the input is absent from the cache
\* queries at least one uncached institution, so that eventually every
\* institution of the input has a cache row.
C28_MaxMakesProgress ==
  /\ [](C28_AtMostMax)
  /\ [][C28_RunQueriesUncached]_vars
  /\ <>(\A n \in InputInstitutions : RowsOf(disk, n) # {})

\* a test script has just reported
TestReports == out'.op \in {"test_japan", "test_json"} /\ out' # out

\* C26: the papers test_japan.py and test_json.py find for ['Japan'] are the
\* papers has_selected_country of filter_papers accepts for ['Japan'].
C26_TestsFilterAsWeb ==
  [][TestReports =>
       out'.rows = OutRows(SelectSeq(papers.rows,
                             LAMBDA p : has_selected_country(p.Author_Countries,
                                                             << <<"Japan">> >>)))]_vars

\* a result row passes the title, author, venue, year and status filters of
\* the query
PassesFilters(r, q) ==
  /\ q.title # <<>> => Contains(LowerS(Render(r.title)), LowerS(Render(q.title)))
  /\ q.author # <<>> => Contains(LowerS(Render(r.authors)), LowerS(Render(q.author)))
  /\ q.venues # <<>> => r.conference \in Range(q.venues)
  /\ q.year_min # NoYear => r.year >= q.year_min
  /\ q.year_max # NoYear => r.year <= q.year_max
  /\ ~q.include_rejected =>
       r.status \notin {<<"Reject">>, <<"Withdraw">>, <<"Desk", "Reject">>}

\* C29: every paper /search and /export_csv return satisfies all active
\* filters (title, author, venue, year range, status), also when
\* include_unknown is set.
C29_ResultsPassFilters ==
  (out.op \in {"search", "export_csv"} /\ out.status = "ok") =>
    \A k \in 1..Len(out.rows) : PassesFilters(out.rows[k], out.query)

\* C30: a conversion leaves in the backup file the Author_Countries values
\* as they were before it, and in the data file the converted values.
C30_BackupBeforeOverwrite ==
  [][(out'.op = "convert" /\ out'.status = "ok" /\ out' # out) =>
       /\ backup'.exists
       /\ backup'.rows = papers.rows
       /\ papers'.rows = Converted(papers.rows)]_vars

====
